---- MODULE Spec2Model ----
(***************************************************************************)
(* A model of the coffee-scraper core:                                     *)
(*   - updateDatabase / checkExistingUrls  (scrape/newcoffeescript.ts)     *)
(*   - RateLimiter and GeminiClient        (scrape/geminiClient.ts)        *)
(* The catalog store, the collectors, the detail scraper and the           *)
(* generative provider are environments: their answers are drawn from      *)
(* small sets.                                                             *)
(***************************************************************************)
EXTENDS Integers, Sequences, FiniteSets, TLC

(***************************************************************************)
(* Bounds of the model.                                                    *)
(***************************************************************************)
\* number of updateDatabase runs explored
MaxRuns == 2
\* longest listing a collector returns
MaxListing == 2
\* runs explored where a row is listed, drops out of the listing and is listed again
MaxStockRuns == 3
\* failures the environment injects in one behaviour (store errors, failed scrapes)
MaxFailures == 1

\* waitForRateLimit calls issued in one behaviour
MaxIssued == 12
\* long waits in one behaviour: pauses between two calls, rate-limit error waits
MaxGaps == 1
\* timers that fire late, in one behaviour
MaxLate == 1
\* callers sharing one RateLimiter
NumCallers == 2
\* generateContent calls made on one client
MaxGenerate == 2
\* model-blocked provider errors in one behaviour
MaxBlocked == 9
\* generateContent calls one source makes in a 'scrape all' run
MaxSourceCalls == 11

\* the awaits a run of updateDatabase gets past in 'all' mode
MaxAwaits == 2

(***************************************************************************)
(* Inputs of the reconciliation model.                                     *)
(***************************************************************************)
Sources == {"sweet_maria", "captain_coffee"}

\* Two ordinary product urls and one url of a roasted product.
Urls == {"u1", "u2", "u-roasted"}

Prices == {10, 12}

\* The substrings (among the patterns the filters look for) a url contains.
UrlSubstrings(url) == IF url = "u-roasted" THEN {"roasted"} ELSE {}

includes(url, pattern) == pattern \in UrlSubstrings(url)

\* The listings a collector may return: (url, price) pairs, duplicate urls allowed,
\* one price level per listing.
ProductData == [url : Urls, price : Prices]

Listings ==
    UNION {{[i \in 1..Len(us) |-> [url |-> us[i], price |-> p]] :
                us \in [1..n -> Urls], p \in Prices} : n \in 0..MaxListing}

(***************************************************************************)
(* Sequence helpers (Array.prototype.map / filter).                        *)
(***************************************************************************)
SeqFilter(s, Keep(_)) == SelectSeq(s, Keep)

SeqMap(s, F(_)) == [i \in 1..Len(s) |-> F(s[i])]

Range(s) == {s[i] : i \in 1..Len(s)}

(***************************************************************************)
(* State.                                                                  *)
(***************************************************************************)
VARIABLES
    \* --- the coffee_catalog table: a sequence of rows, in insertion order
    catalog,
    \* --- updateDatabase: the locals of the run in progress
    udPc,               \* position in updateDatabase
    udSource,           \* source.name
    productsData,       \* result of source.collectInitUrlsData()
    inStockUrls,        \* the filtered url list
    noLongerStockedUrls,
    newUrls,            \* result of checkExistingUrls
    udIdx,              \* index of the for-loop in progress
    scrapedData,        \* result of source.scrapeUrl for the current new url
    finalData,          \* cleaningResult.cleanedData for the current new url
    udResult,           \* the value updateDatabase returned
    \* --- wall clock of the store writes (new Date()), one tick per run
    clock,
    runs,
    failures,           \* environment failures injected so far
    \* --- observation of the run, for the properties
    pre,                \* the catalog when the run started
    runFetched,         \* urls handed to source.scrapeUrl in this run
    runEnriched         \* urls handed to batchCleanFields in this run

VARIABLES
    \* --- time, in milliseconds (Date.now())
    now,
    \* --- RateLimiter
    callTimestamps,     \* this.callTimestamps
    rl,                 \* per caller: position in waitForRateLimit, its timer
    \* --- the callers of the sequential driver
    issued,             \* waitForRateLimit calls issued so far
    gaps,               \* pauses taken so far
    lates,              \* late timers so far
    \* --- observation: the times at which waitForRateLimit recorded a call
    released

rlVars == <<now, callTimestamps, rl, issued, gaps, lates, released>>

VARIABLES
    \* --- GeminiClient
    version,            \* which GeminiClient of geminiClient.ts was constructed (0: none yet)
    models,             \* this.models
    currentModelIndex,  \* this.currentModelIndex
    gc,                 \* generateContent: position, attempt, pending timer
    gcResult,           \* what the last generateContent call returned
    \* --- what has happened so far
    generated,          \* generateContent calls so far
    blockedErrs,        \* model-blocked errors handled so far
    \* --- observation
    cooldowns,          \* completed waits for the primary model's cooldown
    blockedStreak,      \* model-blocked errors since the last success or the construction
    callOthers,         \* errors of the current call that were neither blocked nor rate-limit
    lastError,          \* the last error the provider raised in the current call
    usedModel           \* the model the last provider request went to

gcVars == <<version, models, currentModelIndex, gc, gcResult, generated, blockedErrs,
            cooldowns, blockedStreak, callOthers, lastError, usedModel>>

dbVars == <<catalog, udPc, udSource, productsData, inStockUrls, noLongerStockedUrls,
            newUrls, udIdx, scrapedData, finalData, udResult, clock, runs,
            failures, pre, runFetched, runEnriched>>

VARIABLES
    \* --- validateTastingNotes
    tnInput,            \* the object handed to validateTastingNotes
    tnResult,           \* what it returned
    tnRound             \* the same object sanitized, sanitized again, and validated

tnVars == <<tnInput, tnResult, tnRound>>

VARIABLES
    \* --- DataCleaner.batchCleanFields for one new product
    dcPc,               \* position in batchCleanFields: the await it is suspended at
    dcData,             \* the scraped data of the url in hand (null: nothing was fetched)
    dcResult,           \* its CleaningResult
    dcLog,              \* what it handed to this.log
    \* --- observation
    dcCalls,            \* the calls it made on this.geminiClient
    dcReplies,          \* what this.geminiClient returned, per method
    dcRow               \* the row handed to the store for this product

dcVars == <<dcPc, dcData, dcResult, dcLog, dcCalls, dcReplies, dcRow>>

VARIABLES
    \* --- the process started with 'all': one updateDatabase per source, at once
    saPc,               \* main: "idle" before the sources are started, then "running"
    saClients,          \* per source: the GeminiClient of its DataCleaner, with its RateLimiter
    saErrors,           \* provider errors so far
    \* --- observation
    saRequests          \* the times of the provider requests the process has issued

saVars == <<saPc, saClients, saErrors, saRequests>>

VARIABLES
    \* --- the chunk store of the embedding service
    chunks,             \* the catalog items that own chunks, as (source, link)
    \* --- observation
    cleanups            \* the run in progress, once it has called cleanupUnstockedEmbeddings

emVars == <<chunks, cleanups>>

VARIABLES
    \* --- main started with 'all'
    maPc,               \* main: "idle", "running", then "exit 0" or "exit 1"
    maRuns,             \* per source: the promise chain of its updateDatabase
    maLog               \* what the chains handed to logger.addLog

maVars == <<maPc, maRuns, maLog>>

\* the state of the enrichment steps around the provider client
enVars == <<tnVars, dcVars, saVars, emVars, maVars>>

vars == <<dbVars, rlVars, gcVars, enVars>>

NoValue == "none"

(***************************************************************************)
(* updateDatabase, step 1: the url filter.                                 *)
(***************************************************************************)
UpdateDatabaseKeeps(url) ==
    /\ ~includes(url, "roasted")
    /\ ~includes(url, "subscription")
    /\ ~includes(url, "rstd-subs-")
    /\ ~includes(url, "-set-")
    /\ ~includes(url, "-set.html")
    /\ ~includes(url, "-blend")
    /\ ~includes(url, "-sampler")
    /\ ~includes(url, "steves-favorites")
    /\ ~includes(url, "bag-ends")
    /\ ~includes(url, "fruit-basket-combo-pack")

ItemUrl(item) == item.url

FilterInStockUrls(data) == SeqFilter(SeqMap(data, ItemUrl), UpdateDatabaseKeeps)

\* (mutation) the abort on an empty collection is missing
IsEmptyCollectionNever(urls) == FALSE

\* the guard of the abort: nothing usable was collected
IsEmptyCollection(urls) == Len(urls) = 0

EmptyCollectionResult == [success |-> FALSE, reason |-> "No URLs collected"]

SuccessResult == [success |-> TRUE]

\* new Map(productsData.map(item => [item.url, item.price])).get(url):
\* the last pair of a url wins
RECURSIVE priceMap(_, _)
priceMap(data, url) ==
    IF data = <<>> THEN NoValue
    ELSE IF data[Len(data)].url = url THEN data[Len(data)].price
         ELSE priceMap(SubSeq(data, 1, Len(data) - 1), url)

(***************************************************************************)
(* The store operations updateDatabase issues.                             *)
(***************************************************************************)
\* select link where source = s and stocked = true
SelectStockedLinks(cat, s) ==
    LET IsStocked(row) == row.source = s /\ row.stocked
        Link(row) == row.link
    IN SeqMap(SeqFilter(cat, IsStocked), Link)

\* stocked in the store, not found on the site
NoLongerStocked(stockedLinks, urls) ==
    LET Missing(link) == link \notin Range(urls)
    IN SeqFilter(stockedLinks, Missing)

\* (mutation) the unstock write forgets unstocked_date
UnstockRowNoDate(row, today) == [row EXCEPT !.stocked = FALSE, !.last_updated = today]

\* update({stocked:false, unstocked_date, last_updated})
UnstockRow(row, today) ==
    [row EXCEPT !.stocked = FALSE, !.unstocked_date = today, !.last_updated = today]

\* ... .in('link', links).eq('source', s)
MarkUnstocked(cat, links, s, today) ==
    [i \in 1..Len(cat) |->
        IF cat[i].link \in Range(links) /\ cat[i].source = s
        THEN UnstockRow(cat[i], today) ELSE cat[i]]

\* (mutation) the price write only refreshes the stock flag
PriceRowFlagOnly(row, price) == [row EXCEPT !.stocked = TRUE]

\* (mutation) the price write leaves the stock flag alone
PriceRowCostOnly(row, price) == [row EXCEPT !.cost_lb = price]

\* update({stocked:true, cost_lb: price})
PriceRow(row, price) == [row EXCEPT !.stocked = TRUE, !.cost_lb = price]

\* ... .eq('link', url).eq('source', s)
UpdatePrice(cat, url, s, price) ==
    [i \in 1..Len(cat) |->
        IF cat[i].link = url /\ cat[i].source = s
        THEN PriceRow(cat[i], price) ELSE cat[i]]

CheckExistingKeeps(url) ==
    /\ ~includes(url, "roasted")
    /\ ~includes(url, "subscription")
    /\ ~includes(url, "rstd-subs-")
    /\ ~includes(url, "-set-")
    /\ ~includes(url, "-set.html")
    /\ ~includes(url, "-blend")
    /\ ~includes(url, "-sampler")
    /\ ~includes(url, "steves-favorites")

\* the rows of the store that a select .in('link', urls) returns, any source
ExistingLinks(cat, urls) == {cat[i].link : i \in {j \in 1..Len(cat) : cat[j].link \in Range(urls)}}

\* (mutation) the lookup of the persisted links is missing
checkExistingUrlsNoLookup(cat, urls) == SeqFilter(urls, CheckExistingKeeps)

checkExistingUrls(cat, urls) ==
    LET filteredUrls == SeqFilter(urls, CheckExistingKeeps)
        existingUrlSet == ExistingLinks(cat, filteredUrls)
        IsNew(url) == url \notin existingUrlSet
    IN SeqFilter(filteredUrls, IsNew)

\* what source.scrapeUrl returns on success
ScrapeOk(url, price) ==
    [productName |-> url, url |-> url, cost_lb |-> price, region |-> NoValue]

\* cleaningResult.cleanedData: the scraped fields, the null ones filled in
cleanedData(scraped) == [scraped EXCEPT !.region = "extracted"]

\* the row updateDatabase inserts for a new product
NewRow(scraped, final, s, today) ==
    [name |-> scraped.productName,
     region |-> final.region,
     link |-> scraped.url,
     last_updated |-> today,
     stocked_date |-> today,
     unstocked_date |-> 0,
     source |-> s,
     cost_lb |-> scraped.cost_lb,
     stocked |-> TRUE]

(***************************************************************************)
(* Init: an empty catalog, no run in progress.                             *)
(***************************************************************************)
DbInit ==
    /\ catalog = <<>>
    /\ udPc = "idle"
    /\ udSource = NoValue
    /\ productsData = <<>>
    /\ inStockUrls = <<>>
    /\ noLongerStockedUrls = <<>>
    /\ newUrls = <<>>
    /\ udIdx = 0
    /\ scrapedData = NoValue
    /\ finalData = NoValue
    /\ udResult = NoValue
    /\ clock = 0
    /\ runs = 0
    /\ failures = 0
    /\ pre = <<>>
    /\ runFetched = {}
    /\ runEnriched = {}
    /\ chunks = {}
    /\ cleanups = {}


(***************************************************************************)
(* updateDatabase, one action per await.                                   *)
(***************************************************************************)
\* the call, source.collectInitUrlsData() and the url filter
UdCollect(s, listing) ==
    /\ udPc = "idle"
    /\ runs < MaxRuns
    /\ runs' = runs + 1
    /\ clock' = clock + 1
    /\ udSource' = s
    /\ productsData' = listing
    /\ inStockUrls' = FilterInStockUrls(listing)
    /\ noLongerStockedUrls' = <<>>
    /\ newUrls' = <<>>
    /\ udIdx' = 0
    /\ scrapedData' = NoValue
    /\ finalData' = NoValue
    /\ udResult' = NoValue
    /\ pre' = catalog
    /\ runFetched' = {}
    /\ runEnriched' = {}
    /\ udPc' = "collected"
    /\ UNCHANGED <<catalog, failures>>
    /\ UNCHANGED <<rlVars, gcVars, enVars>>

\* if (inStockUrls.length === 0) return { success: false, reason: 'No URLs collected' }
UdAbortEmpty ==
    /\ udPc = "collected"
    /\ IsEmptyCollection(inStockUrls)
    /\ udResult' = EmptyCollectionResult
    /\ udPc' = "returned"
    /\ UNCHANGED <<catalog, udSource, productsData, inStockUrls, noLongerStockedUrls,
                   newUrls, udIdx, scrapedData, finalData, clock, runs, failures, pre,
                   runFetched, runEnriched>>
    /\ UNCHANGED <<rlVars, gcVars, enVars>>

\* a store call answers with an error: updateDatabase logs and rethrows
UdThrow ==
    /\ udPc \in {"collected", "unstock", "prices", "check", "insert"}
    /\ udPc = "collected" => ~IsEmptyCollection(inStockUrls)
    /\ failures < MaxFailures
    /\ failures' = failures + 1
    /\ udPc' = "thrown"
    /\ UNCHANGED <<catalog, udSource, productsData, inStockUrls, noLongerStockedUrls,
                   newUrls, udIdx, scrapedData, finalData, udResult, clock, runs, pre,
                   runFetched, runEnriched>>
    /\ UNCHANGED <<rlVars, gcVars, enVars>>

\* select the stocked rows of the source; compute noLongerStockedUrls
UdSelectStocked ==
    /\ udPc = "collected"
    /\ ~IsEmptyCollection(inStockUrls)
    /\ noLongerStockedUrls' =
           NoLongerStocked(SelectStockedLinks(catalog, udSource), inStockUrls)
    /\ udPc' = "unstock"
    /\ UNCHANGED <<catalog, udSource, productsData, inStockUrls,
                   newUrls, udIdx, scrapedData, finalData, udResult, clock, runs, failures, pre,
                   runFetched, runEnriched>>
    /\ UNCHANGED <<rlVars, gcVars, enVars>>

\* if (noLongerStockedUrls.length > 0) update(...)
UdMarkUnstocked ==
    /\ udPc = "unstock"
    /\ catalog' = IF Len(noLongerStockedUrls) > 0
                  THEN MarkUnstocked(catalog, noLongerStockedUrls, udSource, clock)
                  ELSE catalog
    /\ udIdx' = 1
    /\ udPc' = "prices"
    /\ UNCHANGED <<udSource, productsData, inStockUrls, noLongerStockedUrls,
                   newUrls, scrapedData, finalData, udResult, clock, runs, failures, pre,
                   runFetched, runEnriched>>
    /\ UNCHANGED <<rlVars, gcVars, enVars>>

\* one iteration of: for (const url of inStockUrls) update({stocked:true, cost_lb})
UdUpdatePrice ==
    /\ udPc = "prices"
    /\ udIdx <= Len(inStockUrls)
    /\ catalog' = UpdatePrice(catalog, inStockUrls[udIdx], udSource,
                              priceMap(productsData, inStockUrls[udIdx]))
    /\ udIdx' = udIdx + 1
    /\ udPc' = IF udIdx = Len(inStockUrls) THEN "check" ELSE "prices"
    /\ UNCHANGED <<udSource, productsData, inStockUrls, noLongerStockedUrls,
                   newUrls, scrapedData, finalData, udResult, clock, runs, failures, pre,
                   runFetched, runEnriched>>
    /\ UNCHANGED <<rlVars, gcVars, enVars>>

\* const newUrls = await checkExistingUrls(inStockUrls), and the debug select
UdCheckExisting ==
    /\ udPc = "check"
    /\ newUrls' = checkExistingUrls(catalog, inStockUrls)
    /\ udIdx' = 1
    /\ udPc' = "process"
    /\ UNCHANGED <<catalog, udSource, productsData, inStockUrls, noLongerStockedUrls,
                   scrapedData, finalData, udResult, clock, runs, failures, pre,
                   runFetched, runEnriched>>
    /\ UNCHANGED <<rlVars, gcVars, enVars>>

\* const scrapedData = await source.scrapeUrl(url, price): data, or null
UdScrape(ok) ==
    /\ udPc = "process"
    /\ udIdx <= Len(newUrls)
    /\ runFetched' = runFetched \cup {newUrls[udIdx]}
    /\ IF ok
       THEN /\ scrapedData' = ScrapeOk(newUrls[udIdx], priceMap(productsData, newUrls[udIdx]))
            /\ udPc' = "clean"
            /\ udIdx' = udIdx
            /\ failures' = failures
       ELSE /\ failures < MaxFailures
            /\ failures' = failures + 1
            /\ scrapedData' = NoValue
            /\ udPc' = "process"
            /\ udIdx' = udIdx + 1
    /\ UNCHANGED <<catalog, udSource, productsData, inStockUrls, noLongerStockedUrls,
                   newUrls, finalData, udResult, clock, runs, pre,
                   runEnriched>>
    /\ UNCHANGED <<rlVars, gcVars, enVars>>

\* const cleaningResult = await dataCleaner.batchCleanFields(scrapedData, source.name)
UdClean ==
    /\ udPc = "clean"
    /\ runEnriched' = runEnriched \cup {scrapedData.url}
    /\ finalData' = cleanedData(scrapedData)
    /\ udPc' = "insert"
    /\ UNCHANGED <<catalog, udSource, productsData, inStockUrls, noLongerStockedUrls,
                   newUrls, udIdx, scrapedData, udResult, clock, runs, failures, pre,
                   runFetched>>
    /\ UNCHANGED <<rlVars, gcVars, enVars>>

\* await supabase.from('coffee_catalog').insert({...})
UdInsert ==
    /\ udPc = "insert"
    /\ catalog' = Append(catalog, NewRow(scrapedData, finalData, udSource, clock))
    /\ udIdx' = udIdx + 1
    /\ scrapedData' = NoValue
    /\ finalData' = NoValue
    /\ udPc' = "process"
    /\ UNCHANGED <<udSource, productsData, inStockUrls, noLongerStockedUrls,
                   newUrls, udResult, clock, runs, failures, pre,
                   runFetched, runEnriched>>
    /\ UNCHANGED <<rlVars, gcVars, enVars>>

\* the owner of the chunks of a catalog row
ChunkOwner(row) == [source |-> row.source, link |-> row.link]

\* embeddingService.cleanupUnstockedEmbeddings(): the chunks of the items that are
\* stocked = false are removed
cleanupUnstockedEmbeddings(owners, rows) ==
    owners \ {ChunkOwner(rows[i]) : i \in {j \in 1..Len(rows) : ~rows[j].stocked}}

\* the select of step 7: the stocked rows of the source added during this run
NewProducts(rows, s, today) ==
    {i \in 1..Len(rows) :
        rows[i].source = s /\ rows[i].stocked /\ rows[i].stocked_date >= today}

\* embeddingService.processBulkEmbeddings(newProducts, false): the products own chunks
processBulkEmbeddings(owners, rows, products) ==
    owners \cup {ChunkOwner(rows[i]) : i \in products}

\* newProductsAdded: the inserts of this run
newProductsAdded == Len(catalog) - Len(pre)

\* if (newUrls.length > 0) { ... step 5 and step 7 ... }
Step7Skipped(urls) == ~(Len(urls) > 0)

\* step 7 after the loop: await embeddingService.cleanupUnstockedEmbeddings(); with no
\* product added there is nothing to embed and the run returns { success: true }
UdCleanup ==
    /\ udPc = "process"
    /\ udIdx > Len(newUrls)
    /\ ~Step7Skipped(newUrls)
    /\ cleanups' = cleanups \cup {runs}
    /\ chunks' = cleanupUnstockedEmbeddings(chunks, catalog)
    /\ IF newProductsAdded > 0
       THEN udPc' = "embed" /\ UNCHANGED udResult
       ELSE udPc' = "returned" /\ udResult' = SuccessResult
    /\ UNCHANGED <<catalog, udSource, productsData, inStockUrls, noLongerStockedUrls,
                   newUrls, udIdx, scrapedData, finalData, clock, runs, failures,
                   pre, runFetched, runEnriched>>
    /\ UNCHANGED <<rlVars, gcVars, tnVars, dcVars, saVars, maVars>>

\* step 7: select the new products, await embeddingService.processBulkEmbeddings(...),
\* then return { success: true }; on the clock of one tick per run the rows stocked
\* within the last minute are the rows with stocked_date = clock
UdEmbed ==
    /\ udPc = "embed"
    /\ chunks' = processBulkEmbeddings(chunks, catalog, NewProducts(catalog, udSource, clock))
    /\ udPc' = "returned"
    /\ udResult' = SuccessResult
    /\ UNCHANGED cleanups
    /\ UNCHANGED <<catalog, udSource, productsData, inStockUrls, noLongerStockedUrls,
                   newUrls, udIdx, scrapedData, finalData, clock, runs, failures,
                   pre, runFetched, runEnriched>>
    /\ UNCHANGED <<rlVars, gcVars, tnVars, dcVars, saVars, maVars>>

\* the run had no new urls, step 5 and step 7 are skipped: return { success: true }
UdReturn ==
    /\ udPc = "process"
    /\ udIdx > Len(newUrls)
    /\ Step7Skipped(newUrls)
    /\ udResult' = SuccessResult
    /\ udPc' = "returned"
    /\ UNCHANGED <<catalog, udSource, productsData, inStockUrls, noLongerStockedUrls,
                   newUrls, udIdx, scrapedData, finalData, clock, runs, failures, pre,
                   runFetched, runEnriched>>
    /\ UNCHANGED <<rlVars, gcVars, enVars>>

\* the promise of updateDatabase settles: main logs the outcome and the process
\* exits; the locals of the run are gone, the store stays
UdSettle ==
    /\ udPc \in {"returned", "thrown"}
    /\ udPc' = "idle"
    /\ udSource' = NoValue
    /\ productsData' = <<>>
    /\ inStockUrls' = <<>>
    /\ noLongerStockedUrls' = <<>>
    /\ newUrls' = <<>>
    /\ udIdx' = 0
    /\ scrapedData' = NoValue
    /\ finalData' = NoValue
    /\ udResult' = NoValue
    /\ pre' = <<>>
    /\ runFetched' = {}
    /\ runEnriched' = {}
    /\ cleanups' = {}
    /\ UNCHANGED <<catalog, clock, runs, failures, chunks>>
    /\ UNCHANGED <<rlVars, gcVars, tnVars, dcVars, saVars, maVars>>

DbNext ==
    \/ \E s \in Sources, listing \in Listings : UdCollect(s, listing)
    \/ UdAbortEmpty
    \/ UdThrow
    \/ UdSelectStocked
    \/ UdMarkUnstocked
    \/ UdUpdatePrice
    \/ UdCheckExisting
    \/ \E ok \in BOOLEAN : UdScrape(ok)
    \/ UdClean
    \/ UdInsert
    \/ UdCleanup
    \/ UdEmbed
    \/ UdReturn
    \/ UdSettle

(***************************************************************************)
(* updateDatabase over three runs of the scraper, so that a row can be     *)
(* inserted by one run, unstocked by the next and listed again in a third. *)
(***************************************************************************)
\* the call, source.collectInitUrlsData() and the url filter
SkCollect(s, listing) ==
    /\ udPc = "idle"
    /\ runs < MaxStockRuns
    /\ runs' = runs + 1
    /\ clock' = clock + 1
    /\ udSource' = s
    /\ productsData' = listing
    /\ inStockUrls' = FilterInStockUrls(listing)
    /\ noLongerStockedUrls' = <<>>
    /\ newUrls' = <<>>
    /\ udIdx' = 0
    /\ scrapedData' = NoValue
    /\ finalData' = NoValue
    /\ udResult' = NoValue
    /\ pre' = catalog
    /\ runFetched' = {}
    /\ runEnriched' = {}
    /\ udPc' = "collected"
    /\ UNCHANGED <<catalog, failures>>
    /\ UNCHANGED <<rlVars, gcVars, enVars>>

SkNext ==
    \/ \E s \in Sources, listing \in Listings : SkCollect(s, listing)
    \/ UdAbortEmpty
    \/ UdThrow
    \/ UdSelectStocked
    \/ UdMarkUnstocked
    \/ UdUpdatePrice
    \/ UdCheckExisting
    \/ \E ok \in BOOLEAN : UdScrape(ok)
    \/ UdClean
    \/ UdInsert
    \/ UdCleanup
    \/ UdEmbed
    \/ UdReturn
    \/ UdSettle

(***************************************************************************)
(* updateDatabase on the millisecond clock.  Above, a run takes no time    *)
(* and two runs are more than a minute apart, so that the rows stocked     *)
(* within the last minute are the rows the run inserted.  Here the clock   *)
(* counts milliseconds and the detail fetch and the enrichment of a new    *)
(* url take time: every provider call waits for the RateLimiter.           *)
(***************************************************************************)
\* new Date(Date.now() - 60000): 'Products added in the last minute'
lastMinuteMs == 60000

\* what the fetch and the enrichment of one new url may take: three provider calls
\* minDelayMs apart, or a wait for the rolling window or for a rate-limit error
ItemMs == {20000, 70000}

\* scrapeUrl has returned data: await dataCleaner.batchCleanFields(...), some time later
EmClean(elapsed) ==
    /\ udPc = "clean"
    /\ clock' = clock + elapsed
    /\ runEnriched' = runEnriched \cup {scrapedData.url}
    /\ finalData' = cleanedData(scrapedData)
    /\ udPc' = "insert"
    /\ UNCHANGED <<catalog, udSource, productsData, inStockUrls, noLongerStockedUrls,
                   newUrls, udIdx, scrapedData, udResult, runs, failures, pre,
                   runFetched>>
    /\ UNCHANGED <<rlVars, gcVars, enVars>>

\* step 7: select the products of the source with stocked = true and
\* stocked_date >= Date.now() - 60000, await processBulkEmbeddings(newProducts, false),
\* then return { success: true }
EmEmbed ==
    /\ udPc = "embed"
    /\ chunks' = processBulkEmbeddings(chunks, catalog,
                                       NewProducts(catalog, udSource, clock - lastMinuteMs))
    /\ udPc' = "returned"
    /\ udResult' = SuccessResult
    /\ UNCHANGED cleanups
    /\ UNCHANGED <<catalog, udSource, productsData, inStockUrls, noLongerStockedUrls,
                   newUrls, udIdx, scrapedData, finalData, clock, runs, failures,
                   pre, runFetched, runEnriched>>
    /\ UNCHANGED <<rlVars, gcVars, tnVars, dcVars, saVars, maVars>>

EmNext ==
    \/ \E s \in Sources, listing \in Listings : UdCollect(s, listing)
    \/ UdAbortEmpty
    \/ UdThrow
    \/ UdSelectStocked
    \/ UdMarkUnstocked
    \/ UdUpdatePrice
    \/ UdCheckExisting
    \/ \E ok \in BOOLEAN : UdScrape(ok)
    \/ \E elapsed \in ItemMs : EmClean(elapsed)
    \/ UdInsert
    \/ UdCleanup
    \/ EmEmbed
    \/ UdReturn
    \/ UdSettle

(***************************************************************************)
(* RateLimiter (scrape/geminiClient.ts).  Times are in milliseconds.       *)
(***************************************************************************)
maxCalls == 10

timeWindowMs == 60000

minDelayMs == 6000

\* the "+ 1000" added to the rate-limit wait
bufferMs == 1000

Callers == 1..NumCallers

\* how late a late timer fires
LateMs == {0, bufferMs}

\* the pauses a caller may take between two calls
GapMs == {bufferMs, minDelayMs + bufferMs, timeWindowMs + bufferMs}

RECURSIVE SeqMin(_)
SeqMin(s) ==
    IF Len(s) = 1 THEN s[1]
    ELSE LET m == SeqMin(Tail(s)) IN IF s[1] < m THEN s[1] ELSE m

RECURSIVE SeqMax(_)
SeqMax(s) ==
    IF Len(s) = 1 THEN s[1]
    ELSE LET m == SeqMax(Tail(s)) IN IF s[1] > m THEN s[1] ELSE m

\* this.callTimestamps.filter(timestamp => now - timestamp < this.timeWindowMs)
InWindow(ts, t) ==
    LET Recent(timestamp) == t - timestamp < timeWindowMs
    IN SelectSeq(ts, Recent)

\* if (this.callTimestamps.length >= this.maxCalls)
AtRateLimit(ts) == Len(ts) >= maxCalls

\* const waitTime = this.timeWindowMs - (now - oldestCall) + 1000
waitTime(ts, t) == timeWindowMs - (t - SeqMin(ts)) + bufferMs

\* (mutation) the minimum delay is measured from the oldest call of the window
TooSoonOldest(ts, t) == Len(ts) > 0 /\ t - SeqMin(ts) < minDelayMs

\* if (this.callTimestamps.length > 0) ... if (timeSinceLastCall < this.minDelayMs)
TooSoon(ts, t) == Len(ts) > 0 /\ t - SeqMax(ts) < minDelayMs

\* const delayTime = this.minDelayMs - timeSinceLastCall
delayTime(ts, t) == minDelayMs - (t - SeqMax(ts))

RlIdle == [pc |-> "idle", wake |-> 0]

RlInit ==
    /\ now = 0
    /\ callTimestamps = <<>>
    /\ rl = [c \in Callers |-> RlIdle]
    /\ issued = 0
    /\ gaps = 0
    /\ lates = 0
    /\ released = <<>>

\* a setTimeout of caller c is due before every other pending one
TimerDue(c) ==
    /\ rl[c].pc \in {"waitLimit", "waitDelay"}
    /\ \A d \in Callers : rl[d].pc \in {"waitLimit", "waitDelay"} => rl[c].wake <= rl[d].wake

\* the time at which a timer set for `wake` fires when it is `late` late
FireTime(wake, late) == IF wake + late > now THEN wake + late ELSE now

\* waitForRateLimit from its first line to its first await (or to its end)
RlBody(c) ==
    /\ rl[c].pc = "body"
    /\ LET ts == InWindow(callTimestamps, now) IN
       IF AtRateLimit(ts)
       THEN /\ callTimestamps' = ts
            /\ rl' = [rl EXCEPT ![c] = [pc |-> "waitLimit", wake |-> now + waitTime(ts, now)]]
            /\ UNCHANGED released
       ELSE IF TooSoon(ts, now)
       THEN /\ callTimestamps' = ts
            /\ rl' = [rl EXCEPT ![c] = [pc |-> "waitDelay", wake |-> now + delayTime(ts, now)]]
            /\ UNCHANGED released
       ELSE /\ callTimestamps' = Append(ts, now)
            /\ released' = Append(released, now)
            /\ rl' = [rl EXCEPT ![c] = [pc |-> "done", wake |-> 0]]
    /\ UNCHANGED <<now, issued, gaps, lates>>
    /\ UNCHANGED <<dbVars, gcVars, enVars>>

\* the rate-limit timer fires: return this.waitForRateLimit()
RlWakeLimit(c, late) ==
    /\ TimerDue(c)
    /\ rl[c].pc = "waitLimit"
    /\ late > 0 => lates < MaxLate
    /\ lates' = IF late > 0 THEN lates + 1 ELSE lates
    /\ now' = FireTime(rl[c].wake, late)
    /\ rl' = [rl EXCEPT ![c] = [pc |-> "body", wake |-> 0]]
    /\ UNCHANGED <<callTimestamps, issued, gaps, released>>
    /\ UNCHANGED <<dbVars, gcVars, enVars>>

\* the minimum-delay timer fires: this.callTimestamps.push(Date.now())
RlWakeDelay(c, late) ==
    /\ TimerDue(c)
    /\ rl[c].pc = "waitDelay"
    /\ late > 0 => lates < MaxLate
    /\ lates' = IF late > 0 THEN lates + 1 ELSE lates
    /\ now' = FireTime(rl[c].wake, late)
    /\ callTimestamps' = Append(callTimestamps, now')
    /\ released' = Append(released, now')
    /\ rl' = [rl EXCEPT ![c] = [pc |-> "done", wake |-> 0]]
    /\ UNCHANGED <<issued, gaps>>
    /\ UNCHANGED <<dbVars, gcVars, enVars>>

\* a caller awaits waitForRateLimit(), at once after its previous call returned
SeqIssue(c) ==
    /\ rl[c].pc \in {"idle", "done"}
    /\ \A d \in Callers : rl[d].pc \in {"idle", "done"}
    /\ issued < MaxIssued
    /\ issued' = issued + 1
    /\ rl' = [rl EXCEPT ![c] = [pc |-> "body", wake |-> 0]]
    /\ UNCHANGED <<now, callTimestamps, gaps, lates, released>>
    /\ UNCHANGED <<dbVars, gcVars, enVars>>

\* the caller does something else for a while between two calls
SeqPause(gap) ==
    /\ \A d \in Callers : rl[d].pc \in {"idle", "done"}
    /\ gaps < MaxGaps
    /\ gaps' = gaps + 1
    /\ now' = now + gap
    /\ UNCHANGED <<callTimestamps, rl, issued, lates, released>>
    /\ UNCHANGED <<dbVars, gcVars, enVars>>

\* a caller awaits waitForRateLimit() whatever the other callers are doing
ConcIssue(c) ==
    /\ rl[c].pc \in {"idle", "done"}
    /\ issued < MaxIssued
    /\ issued' = issued + 1
    /\ rl' = [rl EXCEPT ![c] = [pc |-> "body", wake |-> 0]]
    /\ UNCHANGED <<now, callTimestamps, gaps, lates, released>>
    /\ UNCHANGED <<dbVars, gcVars, enVars>>

\* callers that share one RateLimiter and interleave at its awaits
RcNext ==
    \/ \E c \in Callers : ConcIssue(c)
    \/ \E c \in Callers : RlBody(c)
    \/ \E c \in Callers, late \in LateMs : RlWakeLimit(c, late)
    \/ \E c \in Callers, late \in LateMs : RlWakeDelay(c, late)

RlNext ==
    \/ \E c \in Callers : SeqIssue(c)
    \/ \E gap \in GapMs : SeqPause(gap)
    \/ \E c \in Callers : RlBody(c)
    \/ \E c \in Callers, late \in LateMs : RlWakeLimit(c, late)
    \/ \E c \in Callers, late \in LateMs : RlWakeDelay(c, late)

(***************************************************************************)
(* GeminiClient (scrape/geminiClient.ts).  The file holds two GeminiClient *)
(* classes: version 1 has three models and hands rate-limit errors to the  *)
(* RateLimiter before it looks at model blocking, version 2 has four       *)
(* models and only looks at model blocking.                                *)
(***************************************************************************)
maxRetries == 2

retryDelay == 1000

modelFailureThreshold == 2

cooldownPeriodMs == 600000

\* the wait of handleRateLimitError
rateLimitErrorWaitMs == 60000

Versions == {1, 2}

\* what the provider may raise: a status and the tested substrings its message contains
ProviderErrors ==
    {[status |-> 429, words |-> {"Too Many Requests"}],
     [status |-> 403, words |-> {"blocked"}],
     [status |-> 500, words |-> {}],
     [status |-> 503, words |-> {}]}

NoError == [status |-> 0, words |-> {}]

isRateLimitError(error) ==
    \/ error.status = 429
    \/ error.words \cap {"rate limit", "quota", "429"} # {}

isModelBlocked(v, error) ==
    \/ error.status = 429
    \/ error.status = 403
    \/ error.words \cap {"quota", "limit", "blocked", "429", "403"} # {}
    \/ v = 2 /\ error.words \cap {"rate limit", "Too Many Requests"} # {}

ModelConfig(name) == [name |-> name, failureCount |-> 0, lastFailureTime |-> 0]

InitialModels(v) ==
    IF v = 1
    THEN <<ModelConfig("gemini-2.5-flash-preview-04-17"),
           ModelConfig("gemini-2.5-flash"),
           ModelConfig("gemini-2.5-flash-lite-preview-06-17")>>
    ELSE <<ModelConfig("gemini-2.5-flash-preview-04-17"),
           ModelConfig("gemini-2.5-flash"),
           ModelConfig("gemini-2.5-flash-lite-preview-06-17"),
           ModelConfig("gemini-2.0-flash-exp")>>

\* this.models[index], the source's indices starting at 0
ModelAt(ms, index) == ms[index + 1]

\* (mutation) the threshold has to be exceeded
OverThresholdStrict(count) == count > modelFailureThreshold

\* currentModel.failureCount >= this.modelFailureThreshold
OverThreshold(count) == count >= modelFailureThreshold

\* (mutation) the search takes the primary model without looking at its cooldown
RECURSIVE FindNextModelNoCooldown(_, _, _, _)
FindNextModelNoCooldown(ms, index, i, t) ==
    IF i >= Len(ms)
    THEN [models |-> ms, index |-> index, switched |-> FALSE]
    ELSE LET nextIndex == (index + i) % Len(ms)
             ms2 == IF nextIndex = 0 THEN [ms EXCEPT ![1].failureCount = 0] ELSE ms
         IN IF ModelAt(ms2, nextIndex).failureCount < modelFailureThreshold
            THEN [models |-> ms2, index |-> nextIndex, switched |-> TRUE]
            ELSE FindNextModelNoCooldown(ms2, index, i + 1, t)

\* the loop of switchToNextModel from its i-th iteration on
RECURSIVE FindNextModel(_, _, _, _)
FindNextModel(ms, index, i, t) ==
    IF i >= Len(ms)
    THEN [models |-> ms, index |-> index, switched |-> FALSE]
    ELSE LET nextIndex == (index + i) % Len(ms)
             inCooldown == nextIndex = 0 /\ t - ModelAt(ms, 0).lastFailureTime < cooldownPeriodMs
             ms2 == IF nextIndex = 0 /\ ~inCooldown
                    THEN [ms EXCEPT ![1].failureCount = 0] ELSE ms
         IN IF inCooldown THEN FindNextModel(ms, index, i + 1, t)
            ELSE IF ModelAt(ms2, nextIndex).failureCount < modelFailureThreshold
            THEN [models |-> ms2, index |-> nextIndex, switched |-> TRUE]
            ELSE FindNextModel(ms2, index, i + 1, t)

switchToNextModel(ms, index, t) ==
    LET ms1 == [ms EXCEPT ![index + 1].failureCount = @ + 1,
                          ![index + 1].lastFailureTime = t]
    IN IF OverThreshold(ModelAt(ms1, index).failureCount)
       THEN FindNextModel(ms1, index, 1, t)
       ELSE [models |-> ms1, index |-> index, switched |-> TRUE]

\* handleModelFailure: const waitTime = this.cooldownPeriodMs - timeSinceLastFailure
cooldownWaitTime(ms, t) == cooldownPeriodMs - (t - ModelAt(ms, 0).lastFailureTime)

\* (mutation) the cooldown ends without resetting the primary model's failures
ResetToPrimaryKeepCount(ms) == ms

\* handleModelFailure after its wait: this.models[0].failureCount = 0
ResetToPrimary(ms) == [ms EXCEPT ![1].failureCount = 0]

\* (mutation) handleModelFailure reports whether a model was found
handleModelFailureReturnsSwitched(switched) == switched

\* handleModelFailure ends in `return true` on every path
handleModelFailureReturns(switched) == TRUE

\* (mutation) `continue` without the `attempt--` before it
AttemptAfterContinueCounted(attempt) == attempt + 1

\* attempt--; continue; and then the loop's attempt++
AttemptAfterContinue(attempt) == (attempt - 1) + 1

\* the responses of generateContent
SuccessResponse == [success |-> TRUE, data |-> "text"]

FailedAfterAttempts(name, error) ==
    [success |-> FALSE,
     error |-> [text |-> "Failed after attempts with model", attempts |-> maxRetries,
                model |-> name, cause |-> error]]

AllModelsBlocked(error) ==
    [success |-> FALSE,
     error |-> [text |-> "All models blocked. Error", attempts |-> 0,
                model |-> NoValue, cause |-> error]]

UnexpectedError ==
    [success |-> FALSE,
     error |-> [text |-> "Unexpected error in generateContent", attempts |-> 0,
                model |-> NoValue, cause |-> NoError]]

GcIdle == [pc |-> "idle", attempt |-> 0, wake |-> 0]

GcInit ==
    /\ version = 0
    /\ models = <<>>
    /\ currentModelIndex = 0
    /\ gc = GcIdle
    /\ gcResult = NoValue
    /\ generated = 0
    /\ blockedErrs = 0
    /\ cooldowns = 0
    /\ blockedStreak = 0
    /\ callOthers = 0
    /\ lastError = NoError
    /\ usedModel = NoValue

\* generateContent is the one caller of the client's own RateLimiter
Client == CHOOSE c \in Callers : \A d \in Callers : c <= d

\* the pauses between two generateContent calls: the primary model's cooldown, or
\* one millisecond less
GcGapMs == {cooldownPeriodMs - 1, cooldownPeriodMs}

\* the loop test `attempt <= this.maxRetries` and what follows it
LoopNext(attempt) ==
    IF attempt <= maxRetries
    THEN [gc |-> [pc |-> "request", attempt |-> attempt, wake |-> 0], result |-> NoValue]
    ELSE [gc |-> [pc |-> "returned", attempt |-> attempt, wake |-> 0],
          result |-> UnexpectedError]

\* generateContent after handleModelFailure returned
AfterModelFailure(switched, attempt, error) ==
    IF handleModelFailureReturns(switched)
    THEN LoopNext(AttemptAfterContinue(attempt))
    ELSE [gc |-> [pc |-> "returned", attempt |-> attempt, wake |-> 0],
          result |-> AllModelsBlocked(error)]

\* the model-blocked errors a client may see: MaxBlocked when it has the most models,
\* one threshold fewer for every model it lacks
BlockedBudget(ms) ==
    MaxBlocked - modelFailureThreshold * (Len(InitialModels(2)) - Len(ms))

\* a late timer uses up one of the late events
Late(late) ==
    /\ late > 0 => lates < MaxLate
    /\ lates' = IF late > 0 THEN lates + 1 ELSE lates

\* new GeminiClient()
GcNew(v) ==
    /\ version = 0
    /\ version' = v
    /\ models' = InitialModels(v)
    /\ currentModelIndex' = 0
    /\ UNCHANGED <<gc, gcResult, generated, blockedErrs, cooldowns, blockedStreak, callOthers, lastError, usedModel>>
    /\ UNCHANGED rlVars
    /\ UNCHANGED <<dbVars, enVars>>

\* generateContent is called: await this.rateLimiter.waitForRateLimit()
GcGenerate ==
    /\ version # 0
    /\ gc.pc = "idle"
    /\ rl[Client].pc \in {"idle", "done"}
    /\ generated < MaxGenerate
    /\ generated' = generated + 1
    /\ rl' = [rl EXCEPT ![Client] = [pc |-> "body", wake |-> 0]]
    /\ gc' = [pc |-> "rateWait", attempt |-> 0, wake |-> 0]
    /\ UNCHANGED <<version, models, currentModelIndex, gcResult, blockedErrs,
                   cooldowns, blockedStreak, callOthers, lastError, usedModel>>
    /\ UNCHANGED <<now, callTimestamps, issued, gaps, lates, released>>
    /\ UNCHANGED <<dbVars, enVars>>

\* generateContent awaits its waitForRateLimit call: the steps of the limiter
GcAwaitRateLimit ==
    /\ gc.pc = "rateWait"
    /\ \/ RlBody(Client)
       \/ \E late \in LateMs : RlWakeLimit(Client, late)
       \/ \E late \in LateMs : RlWakeDelay(Client, late)

\* waitForRateLimit returned: for (let attempt = 1; ...
GcEnterLoop ==
    /\ gc.pc = "rateWait"
    /\ rl[Client].pc = "done"
    /\ rl' = [rl EXCEPT ![Client] = RlIdle]
    /\ gc' = LoopNext(1).gc
    /\ UNCHANGED <<version, models, currentModelIndex, gcResult, generated, blockedErrs, cooldowns, blockedStreak, callOthers, lastError,
                   usedModel>>
    /\ UNCHANGED <<now, callTimestamps, issued, gaps, lates, released>>
    /\ UNCHANGED <<dbVars, enVars>>

\* (mutation) a success clears the failures of every model
ResetOnSuccessAll(ms, index) ==
    [i \in 1..Len(ms) |-> [ms[i] EXCEPT !.failureCount = 0]]

\* Success: this.models[this.currentModelIndex].failureCount = 0
ResetOnSuccess(ms, index) == [ms EXCEPT ![index + 1].failureCount = 0]

\* the provider answers with text
GcRespond ==
    /\ gc.pc = "request"
    /\ gc' = [pc |-> "returned", attempt |-> gc.attempt, wake |-> 0]
    /\ usedModel' = ModelAt(models, currentModelIndex).name
    /\ models' = ResetOnSuccess(models, currentModelIndex)
    /\ gcResult' = SuccessResponse
    /\ blockedStreak' = 0
    /\ UNCHANGED <<version, currentModelIndex, generated, blockedErrs, cooldowns, callOthers, lastError>>
    /\ UNCHANGED rlVars
    /\ UNCHANGED <<dbVars, enVars>>

\* version 1: the provider raises a rate-limit error: handleRateLimitError waits
GcCatchRateLimit(error) ==
    /\ gc.pc = "request"
    /\ version = 1
    /\ isRateLimitError(error)
    /\ gaps < MaxGaps
    /\ gaps' = gaps + 1
    /\ usedModel' = ModelAt(models, currentModelIndex).name
    /\ lastError' = error
    /\ gc' = [pc |-> "rateLimitWait", attempt |-> gc.attempt,
              wake |-> now + rateLimitErrorWaitMs]
    /\ UNCHANGED <<version, models, currentModelIndex, gcResult, generated, blockedErrs, cooldowns, blockedStreak, callOthers>>
    /\ UNCHANGED <<now, callTimestamps, rl, issued, lates, released>>
    /\ UNCHANGED <<dbVars, enVars>>

\* handleRateLimitError: this.callTimestamps = []; then attempt--; continue
GcRateLimitWaitOver ==
    /\ gc.pc = "rateLimitWait"
    /\ now' = FireTime(gc.wake, 0)
    /\ callTimestamps' = <<>>
    /\ gc' = LoopNext(AttemptAfterContinue(gc.attempt)).gc
    /\ gcResult' = LoopNext(AttemptAfterContinue(gc.attempt)).result
    /\ UNCHANGED <<version, models, currentModelIndex, generated, blockedErrs,
                   cooldowns, blockedStreak, callOthers, lastError, usedModel>>
    /\ UNCHANGED <<rl, issued, gaps, lates, released>>
    /\ UNCHANGED <<dbVars, enVars>>

\* Date.now() is read in switchToNextModel and again in handleModelFailure: what the
\* clock may have advanced in between.  A tick is explored where it decides something:
\* at the millisecond that ends the primary model's cooldown
ClockTicks == {0, 1}

\* the time left of the primary model's cooldown when switchToNextModel has returned
CooldownLeft(ms, index, t) == cooldownWaitTime(switchToNextModel(ms, index, t).models, t)

\* the provider raises a model-blocked error: handleModelFailure up to its await
GcCatchBlocked(error, tick) ==
    /\ gc.pc = "request"
    /\ ~(version = 1 /\ isRateLimitError(error))
    /\ isModelBlocked(version, error)
    /\ blockedErrs < BlockedBudget(models)
    /\ blockedErrs' = blockedErrs + 1
    /\ blockedStreak' = blockedStreak + 1
    /\ usedModel' = ModelAt(models, currentModelIndex).name
    /\ lastError' = error
    /\ tick > 0 => CooldownLeft(models, currentModelIndex, now) = tick
    /\ now' = now + tick
    /\ LET sw == switchToNextModel(models, currentModelIndex, now)
           wait == cooldownWaitTime(sw.models, now')
           after == AfterModelFailure(sw.switched, gc.attempt, error)
       IN /\ models' = sw.models
          /\ currentModelIndex' = sw.index
          /\ IF ~sw.switched /\ wait > 0
             THEN /\ gc' = [pc |-> "cooldown", attempt |-> gc.attempt, wake |-> now' + wait]
                  /\ UNCHANGED gcResult
             ELSE /\ gc' = after.gc
                  /\ gcResult' = after.result
    /\ UNCHANGED <<version, generated, cooldowns,
                   callOthers>>
    /\ UNCHANGED <<callTimestamps, rl, issued, gaps, lates, released>>
    /\ UNCHANGED <<dbVars, enVars>>

\* the cooldown timer of handleModelFailure fires: back to the primary model
GcCooldownOver(late) ==
    /\ gc.pc = "cooldown"
    /\ Late(late)
    /\ now' = FireTime(gc.wake, late)
    /\ models' = ResetToPrimary(models)
    /\ currentModelIndex' = 0
    /\ cooldowns' = cooldowns + 1
    /\ gc' = AfterModelFailure(FALSE, gc.attempt, lastError).gc
    /\ gcResult' = AfterModelFailure(FALSE, gc.attempt, lastError).result
    /\ UNCHANGED <<version, blockedStreak, generated, blockedErrs, callOthers, lastError, usedModel>>
    /\ UNCHANGED <<callTimestamps, rl, issued, gaps, released>>
    /\ UNCHANGED <<dbVars, enVars>>

\* the provider raises any other error: the last attempt returns, the others back off
GcCatchOther(error) ==
    /\ gc.pc = "request"
    /\ ~(version = 1 /\ isRateLimitError(error))
    /\ ~isModelBlocked(version, error)
    /\ callOthers' = callOthers + 1
    /\ usedModel' = ModelAt(models, currentModelIndex).name
    /\ lastError' = error
    /\ IF gc.attempt = maxRetries
       THEN /\ gc' = [pc |-> "returned", attempt |-> gc.attempt, wake |-> 0]
            /\ gcResult' = FailedAfterAttempts(ModelAt(models, currentModelIndex).name, error)
       ELSE /\ gc' = [pc |-> "backoff", attempt |-> gc.attempt,
                      wake |-> now + retryDelay * gc.attempt]
            /\ UNCHANGED gcResult
    /\ UNCHANGED <<version, models, currentModelIndex, generated, blockedErrs,
                   cooldowns, blockedStreak>>
    /\ UNCHANGED rlVars
    /\ UNCHANGED <<dbVars, enVars>>

\* the retry timer fires: attempt++
GcBackoffOver ==
    /\ gc.pc = "backoff"
    /\ now' = FireTime(gc.wake, 0)
    /\ gc' = LoopNext(gc.attempt + 1).gc
    /\ gcResult' = LoopNext(gc.attempt + 1).result
    /\ UNCHANGED <<version, models, currentModelIndex, generated, blockedErrs,
                   cooldowns, blockedStreak, callOthers, lastError, usedModel>>
    /\ UNCHANGED <<callTimestamps, rl, issued, gaps, lates, released>>
    /\ UNCHANGED <<dbVars, enVars>>

\* the caller has the response
GcReturn ==
    /\ gc.pc = "returned"
    /\ gc' = GcIdle
    /\ gcResult' = NoValue
    /\ callOthers' = 0
    /\ lastError' = NoError
    /\ usedModel' = NoValue
    /\ UNCHANGED <<version, models, currentModelIndex, generated, blockedErrs, cooldowns, blockedStreak>>
    /\ UNCHANGED rlVars
    /\ UNCHANGED <<dbVars, enVars>>

\* time passes between two generateContent calls; the pause that is not the whole
\* cooldown is explored where it differs from it: when it ends one millisecond before
\* the cooldown of a primary model at the threshold ends (below the threshold the
\* primary is the active model, and its lastFailureTime is written before it is read)
GcPause(gap) ==
    /\ version # 0
    /\ gc.pc = "idle"
    /\ gaps < MaxGaps
    /\ gaps' = gaps + 1
    /\ gap # cooldownPeriodMs =>
           /\ ModelAt(models, 0).failureCount >= modelFailureThreshold
           /\ cooldownWaitTime(models, now + gap) = 1
    /\ now' = now + gap
    /\ UNCHANGED gcVars
    /\ UNCHANGED <<callTimestamps, rl, issued, lates, released>>
    /\ UNCHANGED <<dbVars, enVars>>

GcNext ==
    \/ \E v \in Versions : GcNew(v)
    \/ GcGenerate
    \/ GcAwaitRateLimit
    \/ GcEnterLoop
    \/ GcRespond
    \/ \E error \in ProviderErrors : GcCatchRateLimit(error)
    \/ GcRateLimitWaitOver
    \/ \E error \in ProviderErrors, tick \in ClockTicks : GcCatchBlocked(error, tick)
    \/ \E late \in LateMs : GcCooldownOver(late)
    \/ \E error \in ProviderErrors : GcCatchOther(error)
    \/ GcBackoffOver
    \/ GcReturn
    \/ \E gap \in GcGapMs : GcPause(gap)

(***************************************************************************)
(* generateContent on a relative clock.  The code reads lastFailureTime    *)
(* only to subtract it from Date.now() and to compare the difference with  *)
(* cooldownPeriodMs, so here every lastFailureTime is kept by its distance *)
(* to the present (now stays 0), cut off at the cooldown period.  The      *)
(* limiter's await is one step that takes some time.                       *)
(***************************************************************************)
\* d milliseconds pass: every stored time is d further in the past
Elapse(ms, d) ==
    [i \in 1..Len(ms) |->
        [ms[i] EXCEPT !.lastFailureTime =
            IF @ - d < now - cooldownPeriodMs THEN now - cooldownPeriodMs ELSE @ - d]]

\* what the await of waitForRateLimit may take
GlAcquireMs == {0, minDelayMs}

\* the pauses between two generateContent calls
GlGapMs == {cooldownPeriodMs}

\* generateContent is called, waitForRateLimit returns: for (let attempt = 1; ...
GlGenerate(elapsed) ==
    /\ version # 0
    /\ gc.pc = "idle"
    /\ generated < MaxGenerate
    /\ generated' = generated + 1
    /\ models' = Elapse(models, elapsed)
    /\ gc' = LoopNext(1).gc
    /\ UNCHANGED <<version, currentModelIndex, gcResult, blockedErrs, cooldowns,
                   blockedStreak, callOthers, lastError, usedModel>>
    /\ UNCHANGED rlVars
    /\ UNCHANGED <<dbVars, enVars>>

\* version 1: the provider raises a rate-limit error: handleRateLimitError waits
GlCatchRateLimit(error) ==
    /\ gc.pc = "request"
    /\ version = 1
    /\ isRateLimitError(error)
    /\ usedModel' = ModelAt(models, currentModelIndex).name
    /\ lastError' = error
    /\ gc' = [pc |-> "rateLimitWait", attempt |-> gc.attempt,
              wake |-> now + rateLimitErrorWaitMs]
    /\ UNCHANGED <<version, models, currentModelIndex, gcResult, generated, blockedErrs,
                   cooldowns, blockedStreak, callOthers>>
    /\ UNCHANGED rlVars
    /\ UNCHANGED <<dbVars, enVars>>

\* handleRateLimitError returns: attempt--; continue
GlRateLimitWaitOver ==
    /\ gc.pc = "rateLimitWait"
    /\ models' = Elapse(models, gc.wake - now)
    /\ gc' = LoopNext(AttemptAfterContinue(gc.attempt)).gc
    /\ gcResult' = LoopNext(AttemptAfterContinue(gc.attempt)).result
    /\ UNCHANGED <<version, currentModelIndex, generated, blockedErrs, cooldowns,
                   blockedStreak, callOthers, lastError, usedModel>>
    /\ UNCHANGED rlVars
    /\ UNCHANGED <<dbVars, enVars>>

\* the provider raises a model-blocked error: handleModelFailure up to its await
GlCatchBlocked(error) ==
    /\ gc.pc = "request"
    /\ ~(version = 1 /\ isRateLimitError(error))
    /\ isModelBlocked(version, error)
    /\ usedModel' = ModelAt(models, currentModelIndex).name
    /\ lastError' = error
    /\ LET sw == switchToNextModel(models, currentModelIndex, now)
           wait == cooldownWaitTime(sw.models, now)
           after == AfterModelFailure(sw.switched, gc.attempt, error)
       IN /\ models' = sw.models
          /\ currentModelIndex' = sw.index
          /\ IF ~sw.switched /\ wait > 0
             THEN /\ gc' = [pc |-> "cooldown", attempt |-> gc.attempt, wake |-> now + wait]
                  /\ UNCHANGED gcResult
             ELSE /\ gc' = after.gc
                  /\ gcResult' = after.result
    /\ UNCHANGED <<version, generated, blockedErrs, cooldowns, blockedStreak, callOthers>>
    /\ UNCHANGED rlVars
    /\ UNCHANGED <<dbVars, enVars>>

\* the cooldown timer of handleModelFailure fires: back to the primary model
GlCooldownOver ==
    /\ gc.pc = "cooldown"
    /\ models' = ResetToPrimary(Elapse(models, gc.wake - now))
    /\ currentModelIndex' = 0
    /\ gc' = AfterModelFailure(FALSE, gc.attempt, lastError).gc
    /\ gcResult' = AfterModelFailure(FALSE, gc.attempt, lastError).result
    /\ UNCHANGED <<version, generated, blockedErrs, cooldowns, blockedStreak, callOthers,
                   lastError, usedModel>>
    /\ UNCHANGED rlVars
    /\ UNCHANGED <<dbVars, enVars>>

\* the retry timer fires: attempt++
GlBackoffOver ==
    /\ gc.pc = "backoff"
    /\ models' = Elapse(models, gc.wake - now)
    /\ gc' = LoopNext(gc.attempt + 1).gc
    /\ gcResult' = LoopNext(gc.attempt + 1).result
    /\ UNCHANGED <<version, currentModelIndex, generated, blockedErrs, cooldowns,
                   blockedStreak, callOthers, lastError, usedModel>>
    /\ UNCHANGED rlVars
    /\ UNCHANGED <<dbVars, enVars>>

\* time passes between two generateContent calls
GlPause(gap) ==
    /\ version # 0
    /\ gc.pc = "idle"
    /\ models' = Elapse(models, gap)
    /\ models' # models
    /\ UNCHANGED <<version, currentModelIndex, gc, gcResult, generated, blockedErrs,
                   cooldowns, blockedStreak, callOthers, lastError, usedModel>>
    /\ UNCHANGED rlVars
    /\ UNCHANGED <<dbVars, enVars>>

GlNext ==
    \/ \E v \in Versions : GcNew(v)
    \/ \E elapsed \in GlAcquireMs : GlGenerate(elapsed)
    \/ GcRespond
    \/ \E error \in ProviderErrors : GlCatchRateLimit(error)
    \/ GlRateLimitWaitOver
    \/ \E error \in ProviderErrors : GlCatchBlocked(error)
    \/ GlCooldownOver
    \/ \E error \in ProviderErrors : GcCatchOther(error)
    \/ GlBackoffOver
    \/ GcReturn
    \/ \E gap \in GlGapMs : GlPause(gap)

(***************************************************************************)
(* validateTastingNotes (scrape/tastingNotesValidator.ts).  A string is a  *)
(* sequence of one-character strings, a number is given in tenths.         *)
(***************************************************************************)
LowerCase ==
    {"a", "b", "c", "d", "e", "f", "g", "h", "i", "j", "k", "l", "m",
     "n", "o", "p", "q", "r", "s", "t", "u", "v", "w", "x", "y", "z"}

UpperCase ==
    {"A", "B", "C", "D", "E", "F", "G", "H", "I", "J", "K", "L", "M",
     "N", "O", "P", "Q", "R", "S", "T", "U", "V", "W", "X", "Y", "Z"}

Digits == {"0", "1", "2", "3", "4", "5", "6", "7", "8", "9"}

\* \s
WhiteSpace == {" "}

\* [0-9a-f] under the i flag
HexDigits == Digits \cup {"a", "b", "c", "d", "e", "f"} \cup {"A", "B", "C", "D", "E", "F"}

\* (mutation) the tag pattern also lets digits through
tagRegexWithDigits(str) ==
    \/ Len(str) = 1 /\ str[1] \in LowerCase
    \/ /\ Len(str) >= 2
       /\ str[1] \in LowerCase
       /\ str[Len(str)] \in LowerCase
       /\ \A i \in 2..(Len(str) - 1) : str[i] \in LowerCase \cup WhiteSpace \cup {"-"} \cup Digits

\* /^[a-z][a-z\s\-]*[a-z]$|^[a-z]$/
tagRegex(str) ==
    \/ Len(str) = 1 /\ str[1] \in LowerCase
    \/ /\ Len(str) >= 2
       /\ str[1] \in LowerCase
       /\ str[Len(str)] \in LowerCase
       /\ \A i \in 2..(Len(str) - 1) : str[i] \in LowerCase \cup WhiteSpace \cup {"-"}

\* /^#[0-9a-f]{6}$/i
hexColorRegex(str) ==
    /\ Len(str) = 7
    /\ str[1] = "#"
    /\ \A i \in 2..7 : str[i] \in HexDigits

\* the attributes of the schema, in its order
AttributeNames == <<"fragrance_aroma", "flavor", "acidity", "body", "sweetness">>

\* JSON values: a number (in tenths), a string, an object, null; and undefined
Number(tenths) == [type |-> "number", tenths |-> tenths]

String(chars) == [type |-> "string", chars |-> chars]

Object(fields) == [type |-> "object", fields |-> fields]

JsonNull == [type |-> "null"]

Undefined == [type |-> "undefined"]

\* (mutation) the score need not be an integer
ScoreIssuesAnyNumber(attr) ==
    IF "score" \notin DOMAIN attr THEN <<"Required">>
    ELSE IF attr.score.type # "number" THEN <<"Expected number">>
    ELSE (IF attr.score.tenths < 10 THEN <<"Number must be greater than or equal to 1">> ELSE <<>>)
         \o (IF attr.score.tenths > 50 THEN <<"Number must be less than or equal to 5">> ELSE <<>>)

\* score: z.number().int().min(1).max(5): the issues it raises
ScoreIssues(attr) ==
    IF "score" \notin DOMAIN attr THEN <<"Required">>
    ELSE IF attr.score.type # "number" THEN <<"Expected number">>
    ELSE (IF attr.score.tenths % 10 # 0 THEN <<"Expected integer">> ELSE <<>>)
         \o (IF attr.score.tenths < 10 THEN <<"Number must be greater than or equal to 1">> ELSE <<>>)
         \o (IF attr.score.tenths > 50 THEN <<"Number must be less than or equal to 5">> ELSE <<>>)

\* tag: z.string().regex(tagRegex, ...)
TagIssues(attr) ==
    IF "tag" \notin DOMAIN attr THEN <<"Required">>
    ELSE IF attr.tag.type # "string" THEN <<"Expected string">>
    ELSE IF tagRegex(attr.tag.chars) THEN <<>>
    ELSE <<"Tag must be 1-3 lowercase words, may contain spaces or hyphens">>

\* color: z.string().regex(hexColorRegex, ...)
ColorIssues(attr) ==
    IF "color" \notin DOMAIN attr THEN <<"Required">>
    ELSE IF attr.color.type # "string" THEN <<"Expected string">>
    ELSE IF hexColorRegex(attr.color.chars) THEN <<>>
    ELSE <<"Color must be valid hex format #RRGGBB">>

\* the issues found under one path
AtPath(path, found) == [i \in 1..Len(found) |-> [path |-> path, message |-> found[i]]]

\* tastingAttributeSchema, applied to the attribute `name` of an object
tastingAttributeSchema(fields, name) ==
    IF name \notin DOMAIN fields THEN AtPath(<<name>>, <<"Required">>)
    ELSE IF fields[name].type # "object" THEN AtPath(<<name>>, <<"Expected object">>)
    ELSE AtPath(<<name, "score">>, ScoreIssues(fields[name].fields))
         \o AtPath(<<name, "tag">>, TagIssues(fields[name].fields))
         \o AtPath(<<name, "color">>, ColorIssues(fields[name].fields))

\* tastingNotesSchema.parse: the issues of the five attributes, in the schema's order
RECURSIVE SchemaIssues(_, _)
SchemaIssues(fields, i) ==
    IF i > Len(AttributeNames) THEN <<>>
    ELSE tastingAttributeSchema(fields, AttributeNames[i]) \o SchemaIssues(fields, i + 1)

\* what parse returns: the five attributes with their three keys, nothing else
ParsedData(fields) ==
    Object([name \in Range(AttributeNames) |->
               Object([key \in {"score", "tag", "color"} |-> fields[name].fields[key]])])

\* `${err.path.join('.')}: ${err.message}`
ErrorLine(issue) == [path |-> issue.path, message |-> issue.message]

validateTastingNotes(tastingNotes) ==
    LET issues == IF tastingNotes.type # "object"
                  THEN AtPath(<<>>, <<"Expected object">>)
                  ELSE SchemaIssues(tastingNotes.fields, 1)
    IN IF issues = <<>>
       THEN [success |-> TRUE, data |-> ParsedData(tastingNotes.fields), errors |-> Undefined]
       ELSE [success |-> FALSE, data |-> Undefined,
             errors |-> [i \in 1..Len(issues) |-> ErrorLine(issues[i])]]

(***************************************************************************)
(* The objects validateTastingNotes is applied to.                         *)
(***************************************************************************)
GoodAttribute ==
    Object([score |-> Number(40), tag |-> String(<<"n", "u", "t">>),
            color |-> String(<<"#", "8", "b", "4", "5", "1", "3">>)])

ScoreSamples ==
    {Number(0), Number(10), Number(35), Number(50), Number(60), Number(65),
     String(<<"3">>)}

\* every string of at most two of these characters, and a few longer ones
TagChars == {"a", "Z", "7", " ", "-"}

TagSamples ==
    {String(<<>>)}
    \cup {String(<<c>>) : c \in TagChars}
    \cup {String(<<c, d>>) : c \in TagChars, d \in TagChars}
    \cup {String(<<"a", c, "b">>) : c \in TagChars}
    \cup {String(<<"d", "r", "y", " ", "f", "i", "g">>), Number(10),
          String(<<"a", " ", "b", " ", "c", " ", "d">>)}

ColorSamples ==
    {String(<<"#", "8", "b", "4", "5", "1", "3">>),
     String(<<"#", "F", "F", "a", "0", "0", "C">>),
     String(<<"8", "b", "4", "5", "1", "3">>),
     String(<<"#", "8", "b", "4", "5", "1">>),
     String(<<"#", "8", "b", "4", "5", "1", "3", "0">>),
     String(<<"#", "8", "g", "4", "5", "1", "3">>),
     String(<<"#", "8", "b", "4", "5", "1", "3", " ">>),
     String(<<"r", "e", "d">>)}

\* an attribute with every combination of the samples, or with one of its keys missing
AttributeSamples ==
    {Object([score |-> sc, tag |-> tg, color |-> co]) :
        sc \in ScoreSamples, tg \in TagSamples, co \in ColorSamples}
    \cup {Object([tag |-> GoodAttribute.fields.tag, color |-> GoodAttribute.fields.color]),
          Object([score |-> Number(40), color |-> GoodAttribute.fields.color]),
          Object([score |-> Number(40), tag |-> GoodAttribute.fields.tag]),
          JsonNull, String(<<"n", "u", "t">>)}

\* a few attributes for the profiles that vary all five attributes at once
CoarseSamples ==
    {GoodAttribute,
     Object([score |-> Number(35), tag |-> GoodAttribute.fields.tag,
             color |-> GoodAttribute.fields.color]),
     Object([score |-> Number(40), tag |-> String(<<"Z">>),
             color |-> GoodAttribute.fields.color])}

AttributeSet == Range(AttributeNames)

\* the objects: one attribute ranges over all samples and the others are good; or every
\* attribute is missing or one of the coarse samples; with or without a key the schema
\* does not know; and the values that are no object
TastingInputs ==
    {Object([name \in AttributeSet |-> IF name = varied THEN attr ELSE GoodAttribute]) :
        varied \in AttributeSet, attr \in AttributeSamples}
    \cup UNION {{Object(fields) : fields \in [present -> CoarseSamples]} :
                    present \in SUBSET AttributeSet}
    \cup {Object([name \in AttributeSet \cup {"aftertaste"} |-> GoodAttribute]),
          JsonNull, String(<<"n", "u", "t">>)}

TnInit ==
    /\ tnInput = Undefined
    /\ tnResult = Undefined
    /\ tnRound = Undefined

\* validateTastingNotes is applied to an object
TnValidate(tastingNotes) ==
    /\ tnInput = Undefined
    /\ tnInput' = tastingNotes
    /\ tnResult' = validateTastingNotes(tastingNotes)
    /\ UNCHANGED tnRound
    /\ UNCHANGED <<dbVars, rlVars, gcVars, dcVars, saVars, emVars, maVars>>

\* the caller has the result
TnReturn ==
    /\ tnInput # Undefined
    /\ tnInput' = Undefined
    /\ tnResult' = Undefined
    /\ tnRound' = Undefined
    /\ UNCHANGED <<dbVars, rlVars, gcVars, dcVars, saVars, emVars, maVars>>

TnNext ==
    \/ \E tastingNotes \in TastingInputs : TnValidate(tastingNotes)
    \/ TnReturn

(***************************************************************************)
(* sanitizeTastingNotes (scrape/tastingNotesValidator.ts) and the three    *)
(* enrichment methods of GeminiClient (scrape/geminiClient.ts), each as a  *)
(* function of what generateContent returned.                              *)
(***************************************************************************)
LowerOf ==
    [A |-> "a", B |-> "b", C |-> "c", D |-> "d", E |-> "e", F |-> "f", G |-> "g",
     H |-> "h", I |-> "i", J |-> "j", K |-> "k", L |-> "l", M |-> "m", N |-> "n",
     O |-> "o", P |-> "p", Q |-> "q", R |-> "r", S |-> "s", T |-> "t", U |-> "u",
     V |-> "v", W |-> "w", X |-> "x", Y |-> "y", Z |-> "z"]

toLowerCase(chars) ==
    [i \in 1..Len(chars) |-> IF chars[i] \in UpperCase THEN LowerOf[chars[i]] ELSE chars[i]]

RECURSIVE trimStart(_)
trimStart(chars) ==
    IF chars # <<>> /\ chars[1] \in WhiteSpace THEN trimStart(Tail(chars)) ELSE chars

RECURSIVE trimEnd(_)
trimEnd(chars) ==
    IF chars # <<>> /\ chars[Len(chars)] \in WhiteSpace
    THEN trimEnd(SubSeq(chars, 1, Len(chars) - 1))
    ELSE chars

trim(chars) == trimEnd(trimStart(chars))

\* Math.round of a number given in tenths
MathRound(tenths) == ((tenths + 5) \div 10) * 10

\* the truthiness of a value
Truthy(value) ==
    CASE value.type = "undefined" -> FALSE
      [] value.type = "null" -> FALSE
      [] value.type = "string" -> value.chars # <<>>
      [] value.type = "number" -> value.tenths # 0
      [] OTHER -> TRUE

\* object[key], undefined when the object has no such key
Property(fields, key) == IF key \in DOMAIN fields THEN fields[key] ELSE Undefined

\* (mutation) the sanitizer leaves the case of a color as it is
SanitizedKeyKeepCase(key, value) ==
    IF key = "tag" /\ Truthy(value) /\ value.type = "string"
    THEN String(trim(toLowerCase(value.chars)))
    ELSE IF key = "color" /\ Truthy(value) /\ value.type = "string"
    THEN LET color == trim(value.chars)
         IN String(IF color # <<>> /\ color[1] = "#" THEN color ELSE <<"#">> \o color)
    ELSE IF key = "score" /\ Truthy(value) /\ value.type = "number"
    THEN Number(MathRound(value.tenths))
    ELSE value

\* what the sanitizer leaves under one key of an attribute
SanitizedKey(key, value) ==
    IF key = "tag" /\ Truthy(value) /\ value.type = "string"
    THEN String(trim(toLowerCase(value.chars)))
    ELSE IF key = "color" /\ Truthy(value) /\ value.type = "string"
    THEN LET color == trim(toLowerCase(value.chars))
         IN String(IF color # <<>> /\ color[1] = "#" THEN color ELSE <<"#">> \o color)
    ELSE IF key = "score" /\ Truthy(value) /\ value.type = "number"
    THEN Number(MathRound(value.tenths))
    ELSE value

sanitizeTastingNotes(rawTastingNotes) ==
    IF ~Truthy(rawTastingNotes) \/ rawTastingNotes.type # "object" THEN rawTastingNotes
    ELSE Object([key \in DOMAIN rawTastingNotes.fields |->
                    LET value == rawTastingNotes.fields[key]
                    IN IF Truthy(value) /\ value.type = "object"
                       THEN Object([k \in DOMAIN value.fields |->
                                       SanitizedKey(k, value.fields[k])])
                       ELSE value])

\* tag.trim().split(/\s+/).length: the words of a tag, for the strings that
\* do not begin with white space (`n` is the number of leading characters looked at)
RECURSIVE SplitLength(_, _)
SplitLength(chars, n) ==
    IF n = 0 THEN 1
    ELSE SplitLength(chars, n - 1)
         + (IF n > 1 /\ chars[n] \notin WhiteSpace /\ chars[n - 1] \in WhiteSpace
            THEN 1 ELSE 0)

\* isValidTag: at most three words, and the pattern on the tag in lower case
isValidTag(tag) ==
    /\ Truthy(tag)
    /\ tag.type = "string"
    /\ LET words == SplitLength(trim(tag.chars), Len(trim(tag.chars)))
       IN ~(words < 1 \/ words > 3)
    /\ tagRegex(toLowerCase(tag.chars))

\* the same object goes through the sanitizer, once and twice, and the sanitized
\* object through validateTastingNotes
TnSanitize ==
    /\ tnInput # Undefined
    /\ tnRound = Undefined
    /\ LET sanitized == sanitizeTastingNotes(tnInput)
       IN tnRound' = [sanitized |-> sanitized,
                      twice |-> sanitizeTastingNotes(sanitized),
                      result |-> validateTastingNotes(sanitized)]
    /\ UNCHANGED <<tnInput, tnResult>>
    /\ UNCHANGED <<dbVars, rlVars, gcVars, dcVars, saVars, emVars, maVars>>

\* the text of a provider answer: the JSON value it parses to once the code fences
\* are stripped (undefined when it is no JSON), and its number of words
Text(json, words) == [type |-> "text", json |-> json, words |-> words]

Failure(error) == [success |-> FALSE, error |-> error]

Success(data) == [success |-> TRUE, data |-> data]

\* generateContent gave up
GenerateContentFailed == Failure("Failed after attempts")

\* the descriptions the client joins into its prompt: `value && ...`
PromptDescriptions(values) == {i \in 1..Len(values) : Truthy(values[i])}

extractCoffeeData(response) ==
    IF ~response.success THEN response
    ELSE IF response.data.json = Undefined THEN Failure("Failed to parse JSON response")
    ELSE Success(response.data.json)

\* (mutation) the summary is accepted whatever its number of words
generateAiDescriptionAnyLength(descriptionLong, descriptionShort, farmNotes, response) ==
    IF PromptDescriptions(<<descriptionLong, descriptionShort, farmNotes>>) = {}
    THEN Failure("No description text available for AI description generation")
    ELSE IF ~response.success THEN response
    ELSE Success(response.data)

generateAiDescription(descriptionLong, descriptionShort, farmNotes, response) ==
    IF PromptDescriptions(<<descriptionLong, descriptionShort, farmNotes>>) = {}
    THEN Failure("No description text available for AI description generation")
    ELSE IF ~response.success THEN response
    ELSE IF response.data.words < 20 \/ response.data.words > 100
    THEN Failure("Generated description outside acceptable range")
    ELSE Success(response.data)

\* (mutation) the client returns the sanitized answer without validating it
generateAiTastingNotesUnvalidated(descriptionLong, descriptionShort, cuppingNotes, response) ==
    IF ~response.success THEN response
    ELSE IF response.data.json = Undefined THEN Failure("Failed to parse tasting notes JSON")
    ELSE Success(sanitizeTastingNotes(response.data.json))

generateAiTastingNotes(descriptionLong, descriptionShort, cuppingNotes, response) ==
    IF PromptDescriptions(<<descriptionLong, descriptionShort, cuppingNotes>>) = {}
    THEN Failure("No description text available for AI tasting notes generation")
    ELSE IF ~response.success THEN response
    ELSE IF response.data.json = Undefined THEN Failure("Failed to parse tasting notes JSON")
    ELSE LET validationResult == validateTastingNotes(sanitizeTastingNotes(response.data.json))
         IN IF ~validationResult.success
            THEN Failure("Tasting notes validation failed")
            ELSE Success(validationResult.data)

(***************************************************************************)
(* DataCleaner.batchCleanFields (scrape/dataCleaner.ts) for one new        *)
(* product, and the row updateDatabase builds from its result.  The scraped *)
(* data is a function from its keys to JSON values.                        *)
(***************************************************************************)
\* CLEANING_FIELD_CONFIGS.map((config) => config.field)
CLEANING_FIELD_CONFIGS ==
    <<"cultivarDetail", "processing", "region", "grade", "roastRecs", "dryingMethod",
      "lotSize", "bagSize", "packaging", "appearance", "type">>

\* the validation of every config: typeof value === 'string' && value.length > 0
validation(value) == value.type = "string" /\ Len(value.chars) > 0

\* (mutation) a string of white space counts as a value
isNullOrEmptyUntrimmed(value) ==
    \/ value.type = "null"
    \/ value.type = "undefined"
    \/ value.type = "string" /\ value.chars = <<>>

isNullOrEmpty(value) ==
    \/ value.type = "null"
    \/ value.type = "undefined"
    \/ value.type = "string" /\ trim(value.chars) = <<>>

hasAvailableDescriptions(data) ==
    \/ ~isNullOrEmpty(Property(data, "descriptionLong"))
    \/ ~isNullOrEmpty(Property(data, "descriptionShort"))
    \/ ~isNullOrEmpty(Property(data, "farmNotes"))

hasAvailableTastingData(data) ==
    \/ ~isNullOrEmpty(Property(data, "descriptionLong"))
    \/ ~isNullOrEmpty(Property(data, "descriptionShort"))
    \/ ~isNullOrEmpty(Property(data, "cuppingNotes"))

\* object[key] = value
Put(fields, key, value) ==
    [k \in DOMAIN fields \cup {key} |-> IF k = key THEN value ELSE fields[k]]

\* (mutation) every configured field is handed to the extraction
nullFieldsAll(data) == CLEANING_FIELD_CONFIGS

\* targetFields.filter((field) => this.isNullOrEmpty(data[field]))
nullFields(data) ==
    LET IsNull(field) == isNullOrEmpty(Property(data, field))
    IN SelectSeq(CLEANING_FIELD_CONFIGS, IsNull)

LogEntry(step, message) == [step |-> step, message |-> message]

\* the loop over nullFields after a successful extraction, from its i-th field on
RECURSIVE ProcessBatch(_, _, _, _)
ProcessBatch(st, fields, extractedData, i) ==
    IF i > Len(fields) THEN st
    ELSE LET fieldName == fields[i]
             value == Property(extractedData.fields, fieldName)
         IN IF isNullOrEmpty(value) THEN ProcessBatch(st, fields, extractedData, i + 1)
            ELSE IF validation(value)
            THEN ProcessBatch(
                    [st EXCEPT !.result.cleanedData =
                                   Put(@, fieldName, String(trim(value.chars))),
                               !.result.fieldsProcessed = Append(@, fieldName),
                               !.log = Append(@, LogEntry("Data Cleaning", "Batch cleaned field"))],
                    fields, extractedData, i + 1)
            ELSE ProcessBatch(
                    [st EXCEPT !.log = Append(@, LogEntry("Warning", "Batch validation failed for field"))],
                    fields, extractedData, i + 1)

\* the catch of the extraction step
BatchCleaningFailed(st) ==
    [st EXCEPT !.result.errors = Append(@, "Batch cleaning failed"),
               !.log = Append(@, LogEntry("Error", "Batch cleaning failed"))]

\* batchCleanFields once extractCoffeeData has returned
AfterExtraction(st, fields, response) ==
    IF ~response.success THEN BatchCleaningFailed(st)
    ELSE IF response.data.type \in {"null", "undefined"} THEN BatchCleaningFailed(st)
    ELSE LET extractedData == IF response.data.type = "object" THEN response.data
                              ELSE Object(<<>>)
             done == ProcessBatch(st, fields, extractedData, 1)
         IN [done EXCEPT !.log = Append(@, LogEntry("Data Cleaning", "Batch cleaning complete"))]

\* batchCleanFields returns its result
Returned(st) == [st EXCEPT !.pc = "returned"]

\* (mutation) the tasting-profile step is skipped once an error has been recorded
StartTastingNotesUnlessErrors(st) ==
    IF st.result.errors # <<>> THEN Returned(st)
    ELSE IF ~hasAvailableTastingData(st.result.cleanedData)
    THEN Returned([st EXCEPT !.log = Append(@, LogEntry("AI Tasting Notes", "No tasting data available"))])
    ELSE [st EXCEPT !.pc = "taste",
                    !.log = Append(@, LogEntry("AI Tasting Notes", "Generating AI tasting notes")),
                    !.calls = Append(@, [method |-> "generateAiTastingNotes", fields |-> <<>>])]

\* the tasting-profile step up to its call of the client
StartTastingNotes(st) ==
    IF ~hasAvailableTastingData(st.result.cleanedData)
    THEN Returned([st EXCEPT !.log = Append(@, LogEntry("AI Tasting Notes", "No tasting data available"))])
    ELSE [st EXCEPT !.pc = "taste",
                    !.log = Append(@, LogEntry("AI Tasting Notes", "Generating AI tasting notes")),
                    !.calls = Append(@, [method |-> "generateAiTastingNotes", fields |-> <<>>])]

\* (mutation) the summary and the tasting profile are requested together
StartDescriptionTogether(st) ==
    IF ~hasAvailableDescriptions(st.result.cleanedData)
    THEN StartTastingNotes(
            [st EXCEPT !.log = Append(@, LogEntry("AI Description", "No description text available"))])
    ELSE [st EXCEPT !.pc = "describe",
                    !.log = Append(@, LogEntry("AI Description", "Generating AI description")),
                    !.calls = @ \o <<[method |-> "generateAiDescription", fields |-> <<>>],
                                     [method |-> "generateAiTastingNotes", fields |-> <<>>]>>]

\* the summary step up to its call of the client
StartDescription(st) ==
    IF ~hasAvailableDescriptions(st.result.cleanedData)
    THEN StartTastingNotes(
            [st EXCEPT !.log = Append(@, LogEntry("AI Description", "No description text available"))])
    ELSE [st EXCEPT !.pc = "describe",
                    !.log = Append(@, LogEntry("AI Description", "Generating AI description")),
                    !.calls = Append(@, [method |-> "generateAiDescription", fields |-> <<>>])]

\* (mutation) a failed summary is stored as an empty text
AfterDescriptionStoresFailure(st, response) ==
    IF ~response.success
    THEN [st EXCEPT !.result.cleanedData = Put(@, "aiDescription", String(<<>>)),
                    !.log = Append(@, LogEntry("Warning", "AI description generation failed"))]
    ELSE [st EXCEPT !.result.cleanedData = Put(@, "aiDescription", response.data),
                    !.result.fieldsProcessed = Append(@, "aiDescription")]

\* the summary step once the client has returned
AfterDescription(st, response) ==
    IF ~response.success
    THEN [st EXCEPT !.log = Append(@, LogEntry("Warning", "AI description generation failed"))]
    ELSE LET logged == [st EXCEPT !.log = Append(@, LogEntry("AI Description", "Successfully generated AI description"))]
         IN IF Truthy(response.data)
            THEN [logged EXCEPT !.result.cleanedData = Put(@, "aiDescription", response.data),
                                !.result.fieldsProcessed = Append(@, "aiDescription")]
            ELSE logged

\* the tasting-profile step once the client has returned
AfterTastingNotes(st, response) ==
    IF ~response.success
    THEN [st EXCEPT !.log = Append(@, LogEntry("Warning", "AI tasting notes generation failed"))]
    ELSE LET logged == [st EXCEPT !.log = Append(@, LogEntry("AI Tasting Notes", "Successfully generated AI tasting notes"))]
         IN IF Truthy(response.data)
            THEN [logged EXCEPT !.result.cleanedData = Put(@, "aiTastingNotes", response.data),
                                !.result.fieldsProcessed = Append(@, "aiTastingNotes")]
            ELSE logged

\* batchCleanFields from its entry to its first await, or to its return
batchCleanFields(data) ==
    LET st == [pc |-> "entered",
               result |-> [originalData |-> data, cleanedData |-> data,
                           fieldsProcessed |-> <<>>, errors |-> <<>>],
               log |-> <<>>,
               calls |-> <<>>]
    IN IF ~hasAvailableDescriptions(data)
       THEN Returned([st EXCEPT !.log = Append(@, LogEntry("Data Cleaning", "No description text available"))])
       ELSE IF Len(nullFields(data)) = 0
       THEN StartDescription([st EXCEPT !.log = Append(@, LogEntry("Data Cleaning", "No NULL fields found"))])
       ELSE [st EXCEPT !.pc = "extract",
                       !.log = Append(@, LogEntry("Data Cleaning", "Batch processing fields")),
                       !.calls = Append(@, [method |-> "extractCoffeeData",
                                            fields |-> nullFields(data)])]

\* the columns of the inserted row that come from cleaningResult.cleanedData
InsertPayload(final) ==
    [arrival_date |-> Property(final, "arrivalDate"),
     region |-> Property(final, "region"),
     processing |-> Property(final, "processing"),
     drying_method |-> Property(final, "dryingMethod"),
     lot_size |-> Property(final, "lotSize"),
     bag_size |-> Property(final, "bagSize"),
     packaging |-> Property(final, "packaging"),
     cultivar_detail |-> Property(final, "cultivarDetail"),
     grade |-> Property(final, "grade"),
     appearance |-> Property(final, "appearance"),
     roast_recs |-> Property(final, "roastRecs"),
     type |-> Property(final, "type"),
     description_long |-> Property(final, "descriptionLong"),
     description_short |-> Property(final, "descriptionShort"),
     cupping_notes |-> Property(final, "cuppingNotes"),
     farm_notes |-> Property(final, "farmNotes"),
     ai_description |-> Property(final, "aiDescription"),
     ai_tasting_notes |-> Property(final, "aiTastingNotes")]

(***************************************************************************)
(* The products batchCleanFields is called with, and the provider's answers. *)
(***************************************************************************)
Blank == String(<<" ">>)

SomeText == String(<<"w">>)

\* the four description fields of a scraped product
DescriptionVariants ==
    {[descriptionLong |-> JsonNull, descriptionShort |-> JsonNull,
      farmNotes |-> JsonNull, cuppingNotes |-> JsonNull],
     [descriptionLong |-> Blank, descriptionShort |-> JsonNull,
      farmNotes |-> JsonNull, cuppingNotes |-> JsonNull],
     [descriptionLong |-> JsonNull, descriptionShort |-> JsonNull,
      farmNotes |-> JsonNull, cuppingNotes |-> SomeText],
     [descriptionLong |-> JsonNull, descriptionShort |-> JsonNull,
      farmNotes |-> SomeText, cuppingNotes |-> JsonNull],
     [descriptionLong |-> SomeText, descriptionShort |-> JsonNull,
      farmNotes |-> JsonNull, cuppingNotes |-> JsonNull],
     [descriptionLong |-> Blank, descriptionShort |-> SomeText,
      farmNotes |-> SomeText, cuppingNotes |-> SomeText]}

ConfiguredFields == Range(CLEANING_FIELD_CONFIGS)

\* the configured fields of a scraped product: region and grade vary and the others
\* are set; or every field is null; or the product has no region key
FieldVariants ==
    {[field \in ConfiguredFields |->
         IF field = "region" THEN region ELSE IF field = "grade" THEN grade
         ELSE String(<<"s">>)] :
        region \in {JsonNull, Blank, String(<<"h">>)},
        grade \in {JsonNull, Blank, String(<<"g">>)}}
    \cup {[field \in ConfiguredFields |-> JsonNull],
          [field \in ConfiguredFields \ {"region"} |-> String(<<"s">>)]}

ScrapedItems ==
    {[key \in DOMAIN descriptions \cup DOMAIN fields \cup {"arrivalDate"} |->
         IF key \in DOMAIN descriptions THEN descriptions[key]
         ELSE IF key \in DOMAIN fields THEN fields[key]
         ELSE JsonNull] :
        descriptions \in DescriptionVariants, fields \in FieldVariants}

\* the JSON object of an extraction answer: a value for region and grade (none when
\* undefined), and values for two more configured fields and for a field that is
\* not configured
ExtractionObject(region, grade) ==
    LET keys == {"processing", "cultivarDetail", "arrivalDate"}
                \cup (IF region = Undefined THEN {} ELSE {"region"})
                \cup (IF grade = Undefined THEN {} ELSE {"grade"})
    IN Object([key \in keys |->
                  IF key = "region" THEN region ELSE IF key = "grade" THEN grade
                  ELSE String(<<"n">>)])

ExtractionAnswers ==
    {Success(Text(ExtractionObject(region, grade), 1)) :
        region \in {Undefined, JsonNull, String(<<>>), Blank,
                    String(<<" ", "x", " ">>), Number(170)},
        grade \in {Undefined, String(<<"a", "a">>), Number(170)}}
    \cup {Success(Text(JsonNull, 1)), Success(Text(String(<<"x">>), 1)),
          Success(Text(Undefined, 1)), GenerateContentFailed}

DescriptionAnswers ==
    {Success(Text(Undefined, 19)), Success(Text(Undefined, 20)),
     Success(Text(Undefined, 100)), Success(Text(Undefined, 101)),
     GenerateContentFailed}

GoodProfile == [name \in AttributeSet |-> GoodAttribute]

\* an attribute the sanitizer repairs: 3.5, " Nut", "8B4513"
MessyAttribute ==
    Object([score |-> Number(35), tag |-> String(<<" ", "N", "u", "t">>),
            color |-> String(<<"8", "B", "4", "5", "1", "3">>)])

\* the profiles of the tasting answers: good, repairable, and defective in one attribute
TastingProfiles ==
    {Object(GoodProfile),
     Object([name \in AttributeSet |-> MessyAttribute]),
     Object([name \in AttributeSet \ {"sweetness"} |-> GoodAttribute]),
     Object([name \in AttributeSet \cup {"aftertaste"} |-> GoodAttribute]),
     JsonNull}
    \cup {Object([GoodProfile EXCEPT !["body"] = attr]) :
            attr \in {Object([GoodAttribute.fields EXCEPT !.score = Number(60)]),
                      Object([GoodAttribute.fields EXCEPT !.score = Number(4)]),
                      Object([GoodAttribute.fields EXCEPT !.tag = String(<<"a", "7">>)]),
                      Object([GoodAttribute.fields EXCEPT !.color = String(<<"r", "e", "d">>)]),
                      Object([tag |-> GoodAttribute.fields.tag]),
                      JsonNull}}

TastingAnswers ==
    {Success(Text(profile, 1)) : profile \in TastingProfiles}
    \cup {Success(Text(Undefined, 1)), GenerateContentFailed}

(***************************************************************************)
(* The actions: one per await of batchCleanFields, and the insert.         *)
(***************************************************************************)
NoReplies ==
    [extractCoffeeData |-> Undefined, generateAiDescription |-> Undefined,
     generateAiTastingNotes |-> Undefined]

DcInit ==
    /\ dcPc = "idle"
    /\ dcData = Undefined
    /\ dcResult = Undefined
    /\ dcLog = <<>>
    /\ dcCalls = <<>>
    /\ dcReplies = NoReplies
    /\ dcRow = Undefined

\* batchCleanFields as it stands at its await
DcSuspended == [pc |-> dcPc, result |-> dcResult, log |-> dcLog, calls |-> dcCalls]

\* batchCleanFields runs on to its next await, or returns
DcResume(st) ==
    /\ dcPc' = st.pc
    /\ dcResult' = st.result
    /\ dcLog' = st.log
    /\ dcCalls' = st.calls

\* const cleaningResult = await dataCleaner.batchCleanFields(scrapedData, source.name)
DcBatchCleanFields(data) ==
    /\ dcPc = "idle"
    /\ dcData' = data
    /\ DcResume(batchCleanFields(data))
    /\ UNCHANGED <<dcReplies, dcRow>>
    /\ UNCHANGED <<dbVars, rlVars, gcVars, tnVars, saVars, emVars, maVars>>

\* const scrapedData = await source.scrapeUrl(url, price) returned null: the body of
\* `if (scrapedData) { ... }` is skipped and the loop is at its next url
DcScrapedNothing ==
    /\ dcPc = "idle"
    /\ dcData' = JsonNull
    /\ UNCHANGED <<dcPc, dcResult, dcLog, dcCalls, dcReplies, dcRow>>
    /\ UNCHANGED <<dbVars, rlVars, gcVars, tnVars, saVars, emVars, maVars>>

\* await this.geminiClient.extractCoffeeData(batchPrompt) returns
DcExtracted(response) ==
    /\ dcPc = "extract"
    /\ LET reply == extractCoffeeData(response)
       IN /\ dcReplies' = [dcReplies EXCEPT !.extractCoffeeData =
                              [response |-> response, reply |-> reply]]
          /\ DcResume(StartDescription(AfterExtraction(DcSuspended, nullFields(dcData), reply)))
    /\ UNCHANGED <<dcData, dcRow>>
    /\ UNCHANGED <<dbVars, rlVars, gcVars, tnVars, saVars, emVars, maVars>>

\* await this.geminiClient.generateAiDescription(...) returns
DcDescribed(response) ==
    /\ dcPc = "describe"
    /\ LET data == dcResult.cleanedData
           reply == generateAiDescription(data.descriptionLong, data.descriptionShort,
                                          data.farmNotes, response)
       IN /\ dcReplies' = [dcReplies EXCEPT !.generateAiDescription =
                              [response |-> response, reply |-> reply]]
          /\ DcResume(StartTastingNotes(AfterDescription(DcSuspended, reply)))
    /\ UNCHANGED <<dcData, dcRow>>
    /\ UNCHANGED <<dbVars, rlVars, gcVars, tnVars, saVars, emVars, maVars>>

\* await this.geminiClient.generateAiTastingNotes(...) returns
DcTasted(response) ==
    /\ dcPc = "taste"
    /\ LET data == dcResult.cleanedData
           reply == generateAiTastingNotes(data.descriptionLong, data.descriptionShort,
                                           data.cuppingNotes, response)
       IN /\ dcReplies' = [dcReplies EXCEPT !.generateAiTastingNotes =
                              [response |-> response, reply |-> reply]]
          /\ DcResume(Returned(AfterTastingNotes(DcSuspended, reply)))
    /\ UNCHANGED <<dcData, dcRow>>
    /\ UNCHANGED <<dbVars, rlVars, gcVars, tnVars, saVars, emVars, maVars>>

\* await supabase.from('coffee_catalog').insert({...}) with the cleaned data
DcInsert ==
    /\ dcPc = "returned"
    /\ dcRow' = InsertPayload(dcResult.cleanedData)
    /\ dcPc' = "inserted"
    /\ UNCHANGED <<dcData, dcResult, dcLog, dcCalls, dcReplies>>
    /\ UNCHANGED <<dbVars, rlVars, gcVars, tnVars, saVars, emVars, maVars>>

\* the loop of updateDatabase goes on to the next new url
DcNextUrl ==
    /\ dcPc = "inserted"
    /\ dcPc' = "idle"
    /\ dcData' = Undefined
    /\ dcResult' = Undefined
    /\ dcLog' = <<>>
    /\ dcCalls' = <<>>
    /\ dcReplies' = NoReplies
    /\ dcRow' = Undefined
    /\ UNCHANGED <<dbVars, rlVars, gcVars, tnVars, saVars, emVars, maVars>>

DcNext ==
    \/ \E data \in ScrapedItems : DcBatchCleanFields(data)
    \/ DcScrapedNothing
    \/ \E response \in ExtractionAnswers : DcExtracted(response)
    \/ \E response \in DescriptionAnswers : DcDescribed(response)
    \/ \E response \in TastingAnswers : DcTasted(response)
    \/ DcInsert
    \/ DcNextUrl

(***************************************************************************)
(* 'scrape all' (main of scrape/newcoffeescript.ts): updateDatabase is     *)
(* started for every source at once, and each run constructs its own       *)
(* DataCleaner, so its own GeminiClient and its own RateLimiter.           *)
(***************************************************************************)
\* new DataCleaner(logger): new GeminiClient(), new RateLimiter()
NewClient == [callTimestamps |-> <<>>, pc |-> "idle", attempt |-> 0, wake |-> 0, calls |-> 0]

SaInit ==
    /\ saPc = "idle"
    /\ saClients = [s \in Sources |-> NewClient]
    /\ saErrors = 0
    /\ saRequests = <<>>

\* waitForRateLimit of one client's limiter at time t, up to its await or its end
SaWaitForRateLimit(client, t) ==
    LET ts == InWindow(client.callTimestamps, t) IN
    IF AtRateLimit(ts)
    THEN [client EXCEPT !.callTimestamps = ts, !.pc = "waitLimit", !.wake = t + waitTime(ts, t)]
    ELSE IF TooSoon(ts, t)
    THEN [client EXCEPT !.callTimestamps = ts, !.pc = "waitDelay", !.wake = t + delayTime(ts, t)]
    ELSE [client EXCEPT !.callTimestamps = Append(ts, t), !.pc = "request", !.attempt = 1]

\* the timer of source s is due before every other pending one; the work of a run
\* between two generateContent calls takes no time, so no timer fires while a run
\* has its next call to make
SaTimerDue(s) ==
    /\ saClients[s].pc \in {"waitLimit", "waitDelay", "backoff"}
    /\ \A o \in Sources : saClients[o].pc = "idle" => saClients[o].calls = MaxSourceCalls
    /\ \A o \in Sources :
          saClients[o].pc \in {"waitLimit", "waitDelay", "backoff"}
              => saClients[s].wake <= saClients[o].wake

\* await this.model.generateContent(prompt) for a client that is through its limiter:
\* the provider answers at once; it succeeds, or fails with an error that is not a
\* model-blocked one
SaRequest(client, ok, t) ==
    IF client.pc # "request" THEN client
    ELSE IF ok THEN [client EXCEPT !.pc = "idle", !.attempt = 0]
    ELSE IF client.attempt = maxRetries THEN [client EXCEPT !.pc = "idle", !.attempt = 0]
    ELSE [client EXCEPT !.pc = "backoff", !.wake = t + retryDelay * client.attempt]

\* source s resumes as `client` at time t: it issues a provider request if it is
\* through its limiter
SaStep(s, client, ok, t) ==
    /\ client.pc = "request" /\ ~ok => saErrors < MaxFailures
    /\ saErrors' = IF client.pc = "request" /\ ~ok THEN saErrors + 1 ELSE saErrors
    /\ saRequests' = IF client.pc = "request" THEN Append(saRequests, t) ELSE saRequests
    /\ saClients' = [saClients EXCEPT ![s] = SaRequest(client, ok, t)]
    /\ UNCHANGED <<callTimestamps, rl, issued, gaps, lates, released>>
    /\ UNCHANGED <<dbVars, gcVars, tnVars, dcVars, emVars, maVars>>

\* Promise.all(Object.values(sourceMap).map((source) => updateDatabase(source)))
SaScrapeAll ==
    /\ saPc = "idle"
    /\ saPc' = "running"
    /\ saClients' = [s \in Sources |-> NewClient]
    /\ UNCHANGED <<saErrors, saRequests, now>>
    /\ UNCHANGED <<callTimestamps, rl, issued, gaps, lates, released>>
    /\ UNCHANGED <<dbVars, gcVars, tnVars, dcVars, emVars, maVars>>

\* the run of source s calls generateContent: await this.rateLimiter.waitForRateLimit()
SaGenerate(s, ok) ==
    /\ saPc = "running"
    /\ saClients[s].pc = "idle"
    /\ saClients[s].calls < MaxSourceCalls
    /\ SaStep(s, SaWaitForRateLimit([saClients[s] EXCEPT !.calls = @ + 1], now), ok, now)
    /\ UNCHANGED <<saPc, now>>

\* the rate-limit timer of source s fires: return this.waitForRateLimit()
SaWakeLimit(s, ok) ==
    /\ SaTimerDue(s)
    /\ saClients[s].pc = "waitLimit"
    /\ now' = FireTime(saClients[s].wake, 0)
    /\ SaStep(s, SaWaitForRateLimit(saClients[s], now'), ok, now')
    /\ UNCHANGED saPc

\* the minimum-delay timer of source s fires: this.callTimestamps.push(Date.now())
SaWakeDelay(s, ok) ==
    /\ SaTimerDue(s)
    /\ saClients[s].pc = "waitDelay"
    /\ now' = FireTime(saClients[s].wake, 0)
    /\ SaStep(s, [saClients[s] EXCEPT !.callTimestamps = Append(@, now'),
                                      !.pc = "request", !.attempt = 1], ok, now')
    /\ UNCHANGED saPc

\* the retry delay is over: the next attempt
SaBackoffOver(s, ok) ==
    /\ SaTimerDue(s)
    /\ saClients[s].pc = "backoff"
    /\ now' = FireTime(saClients[s].wake, 0)
    /\ SaStep(s, [saClients[s] EXCEPT !.pc = "request", !.attempt = @ + 1], ok, now')
    /\ UNCHANGED saPc

SaNext ==
    \/ SaScrapeAll
    \/ \E s \in Sources, ok \in BOOLEAN : SaGenerate(s, ok)
    \/ \E s \in Sources, ok \in BOOLEAN : SaWakeLimit(s, ok)
    \/ \E s \in Sources, ok \in BOOLEAN : SaWakeDelay(s, ok)
    \/ \E s \in Sources, ok \in BOOLEAN : SaBackoffOver(s, ok)

(***************************************************************************)
(* main with 'all': Promise.all over one promise chain per source,         *)
(* updateDatabase(source).then(...).catch(...), then the consolidated logs. *)
(***************************************************************************)
\* the value the .catch handler of a source returns
CaughtResult(s) == [success |-> FALSE, source |-> s]

\* the message the .then handler logs for a result
ResultMessage(result) ==
    IF ~result.success
    THEN IF "reason" \in DOMAIN result /\ result.reason = "No URLs collected"
         THEN "No URLs collected, database unchanged."
         ELSE "Failed to update database."
    ELSE "Completed successfully"

\* logger.addLog(step, source, message)
addLog(log, step, s, message) == Append(log, [step |-> step, source |-> s, message |-> message])

\* (mutation) the chain of a source has no .catch: the rejection reaches Promise.all
CatchHandlerMissing(s, run, log) == [run |-> [run EXCEPT !.pc = "failed"], log |-> log]

\* .catch((error) => { logger.addLog('Error', source.name, ...); return {...} })
CatchHandler(s, run, log) ==
    [run |-> [run EXCEPT !.pc = "settled", !.value = CaughtResult(s)],
     log |-> addLog(log, "Error", s, "Error")]

\* Promise.all over the chains: rejected with the first rejected chain, fulfilled
\* when every chain is fulfilled
PromiseAll(chains) ==
    IF \E s \in DOMAIN chains : chains[s].pc = "failed" THEN "rejected"
    ELSE IF \A s \in DOMAIN chains : chains[s].pc = "settled" THEN "fulfilled"
    ELSE "pending"

MaInit ==
    /\ maPc = "idle"
    /\ maRuns = [s \in Sources |-> [pc |-> "pending", awaits |-> 0, value |-> Undefined]]
    /\ maLog = <<>>

\* Object.values(sourceMap).map((source) => updateDatabase(source)...): every run is
\* started, each up to its first await
MaScrapeAll ==
    /\ maPc = "idle"
    /\ maPc' = "running"
    /\ maRuns' = [s \in Sources |-> [pc |-> "running", awaits |-> 0, value |-> Undefined]]
    /\ UNCHANGED maLog
    /\ UNCHANGED <<dbVars, rlVars, gcVars, tnVars, dcVars, saVars, emVars>>

\* the run of a source gets past one of its awaits
MaAwait(s) ==
    /\ maPc = "running"
    /\ maRuns[s].pc = "running"
    /\ maRuns[s].awaits < MaxAwaits
    /\ maRuns' = [maRuns EXCEPT ![s].awaits = @ + 1]
    /\ UNCHANGED <<maPc, maLog>>
    /\ UNCHANGED <<dbVars, rlVars, gcVars, tnVars, dcVars, saVars, emVars>>

\* updateDatabase returns its result
MaReturn(s, result) ==
    /\ maPc = "running"
    /\ maRuns[s].pc = "running"
    /\ maRuns[s].awaits > 0
    /\ maRuns' = [maRuns EXCEPT ![s].pc = "returned", ![s].value = result]
    /\ UNCHANGED <<maPc, maLog>>
    /\ UNCHANGED <<dbVars, rlVars, gcVars, tnVars, dcVars, saVars, emVars>>

\* an await of updateDatabase throws: its catch logs the error and rethrows
MaThrow(s) ==
    /\ maPc = "running"
    /\ maRuns[s].pc = "running"
    /\ maRuns' = [maRuns EXCEPT ![s].pc = "thrown"]
    /\ maLog' = addLog(maLog, "Error", s, "Error updating database")
    /\ UNCHANGED maPc
    /\ UNCHANGED <<dbVars, rlVars, gcVars, tnVars, dcVars, saVars, emVars>>

\* .then((result) => { logger.addLog('Result', source.name, ...); return result })
MaThen(s) ==
    /\ maPc = "running"
    /\ maRuns[s].pc = "returned"
    /\ maRuns' = [maRuns EXCEPT ![s].pc = "settled"]
    /\ maLog' = addLog(maLog, "Result", s, ResultMessage(maRuns[s].value))
    /\ UNCHANGED maPc
    /\ UNCHANGED <<dbVars, rlVars, gcVars, tnVars, dcVars, saVars, emVars>>

\* the rejection of updateDatabase reaches the .catch of its chain
MaCatch(s) ==
    /\ maPc = "running"
    /\ maRuns[s].pc = "thrown"
    /\ LET out == CatchHandler(s, maRuns[s], maLog)
       IN /\ maRuns' = [maRuns EXCEPT ![s] = out.run]
          /\ maLog' = out.log
    /\ UNCHANGED maPc
    /\ UNCHANGED <<dbVars, rlVars, gcVars, tnVars, dcVars, saVars, emVars>>

\* Promise.all settles: printConsolidatedLogs() and process.exit, which ends every run
MaPrint ==
    /\ maPc = "running"
    /\ PromiseAll(maRuns) # "pending"
    /\ IF PromiseAll(maRuns) = "fulfilled"
       THEN /\ maPc' = "exit 0"
            /\ UNCHANGED maLog
       ELSE /\ maPc' = "exit 1"
            /\ maLog' = addLog(maLog, "Error", "system", "Fatal error")
    /\ UNCHANGED maRuns
    /\ UNCHANGED <<dbVars, rlVars, gcVars, tnVars, dcVars, saVars, emVars>>

MaNext ==
    \/ MaScrapeAll
    \/ \E s \in Sources : MaAwait(s)
    \/ \E s \in Sources, result \in {SuccessResult, EmptyCollectionResult} : MaReturn(s, result)
    \/ \E s \in Sources : MaThrow(s)
    \/ \E s \in Sources : MaThen(s)
    \/ \E s \in Sources : MaCatch(s)
    \/ MaPrint

(***************************************************************************)
(* Properties of updateDatabase.                                           *)
(***************************************************************************)
\* urls(L): the urls of the listing the collector returned
ListedUrls == {productsData[i].url : i \in 1..Len(productsData)}

Links(cat) == {cat[i].link : i \in 1..Len(cat)}

\* rows of the source that were stocked when the run started
PreStocked == {i \in 1..Len(pre) : pre[i].source = udSource /\ pre[i].stocked}

PreStockedAbsent == {i \in PreStocked : pre[i].link \notin ListedUrls}

PreStockedListed == {i \in PreStocked : pre[i].link \in ListedUrls}

RunReturned == udPc = "returned"

RunSucceeded == udPc = "returned" /\ udResult.success

RunInProgress == udPc # "idle"

\* C1: a run whose collected listing is empty writes nothing to the catalog, fetches
\* and enriches nothing, does not throw, and returns the failure result with reason
\* 'No URLs collected'.
C1_EmptyListingNoWrite ==
    (RunInProgress /\ productsData = <<>>) =>
        /\ catalog = pre
        /\ runFetched = {}
        /\ runEnriched = {}
        /\ udPc \in {"collected", "returned"}
        /\ RunReturned => udResult = EmptyCollectionResult

\* an empty listing came back while the source had stocked rows
C1_Witness ==
    /\ RunReturned
    /\ productsData = <<>>
    /\ PreStocked # {}

\* the rows a returned run leaves unstocked, dated now, and never fetched or enriched
AbsentRowsUnstocked ==
    \A i \in PreStockedAbsent :
        /\ catalog[i].stocked = FALSE
        /\ catalog[i].unstocked_date = clock
        /\ catalog[i].last_updated = clock
        /\ pre[i].link \notin runFetched \cup runEnriched

C3_ListedStockedPriceOnly ==
    /\ RunInProgress =>
           \A i \in PreStockedListed :
               /\ catalog[i].stocked
               /\ [catalog[i] EXCEPT !.cost_lb = 0] = [pre[i] EXCEPT !.cost_lb = 0]
    /\ RunSucceeded =>
           \A i \in PreStockedListed :
               catalog[i].cost_lb = priceMap(productsData, pre[i].link)

\* a stocked row was listed again at another price, and the run returned success
C3_Witness ==
    /\ RunSucceeded
    /\ \E i \in PreStockedListed : catalog[i].cost_lb # pre[i].cost_lb

\* the listed urls that pass the url filters and have no row under any source
ExpectedNewUrls ==
    {u \in ListedUrls :
        UpdateDatabaseKeeps(u) /\ CheckExistingKeeps(u) /\ u \notin Links(pre)}

InsertedRows == {i \in 1..Len(catalog) : i > Len(pre)}

\* C4: when a run returns success, the urls it detail-fetched are exactly the listed
\* urls that pass the filter and were persisted under no source; every url whose
\* fetch succeeded was enriched and has a row inserted by this run for this source
\* with stocked = true, stocked_date = now and cost_lb = its listed price; and the
\* run inserted no other row.
C4_NewUrlsFetchedInserted ==
    RunSucceeded =>
        /\ runFetched = ExpectedNewUrls
        /\ runEnriched \subseteq runFetched
        /\ \A u \in runEnriched :
               \E i \in InsertedRows :
                   /\ catalog[i].link = u
                   /\ catalog[i].source = udSource
                   /\ catalog[i].stocked
                   /\ catalog[i].stocked_date = clock
                   /\ catalog[i].cost_lb = priceMap(productsData, u)
        /\ \A i \in InsertedRows : catalog[i].link \in runEnriched

\* one listing held a url already persisted and a new one; the new one was inserted
C4_Witness ==
    /\ RunSucceeded
    /\ runEnriched # {}
    /\ \E u \in ListedUrls : UpdateDatabaseKeeps(u) /\ u \in Links(pre)

\* the steps that hand a url to source.scrapeUrl / to batchCleanFields
FetchStep == udPc = "process" /\ udPc' \in {"process", "clean"}

EnrichStep == udPc = "clean" /\ udPc' = "insert"

\* C5 (as claimed): enrichment happens once per catalog url, at creation: no url
\* that already has a row in the catalog is handed to the detail fetch or to
\* batchCleanFields.
C5_Original ==
    [][/\ FetchStep => newUrls[udIdx] \notin Links(catalog)
       /\ EnrichStep => scrapedData.url \notin Links(catalog)]_vars

\* C15 (as claimed): a failure confined to one new product never aborts the run: once
\* the loop over the new urls has begun, updateDatabase does not end by throwing.
C15_Original ==
    [][(udPc \in {"process", "clean", "insert"}) => (udPc' # "thrown")]_vars

\* C16 (as claimed): the catalog holds at most one row per (source, url).
C16_Original ==
    \A i, j \in 1..Len(catalog) :
        catalog[i].source = catalog[j].source /\ catalog[i].link = catalog[j].link => i = j

Init == DbInit /\ RlInit /\ GcInit /\ TnInit /\ DcInit /\ SaInit /\ MaInit

Next == DbNext

Spec == Init /\ [][Next]_vars

(***************************************************************************)
(* Properties of the RateLimiter, for calls issued one after another.      *)
(***************************************************************************)
NextRl == RlNext

SpecRl == Init /\ [][NextRl]_vars

\* recorded calls before the i-th that lie in the 60 s before it
RecordedInWindowBefore(i) ==
    {j \in 1..(i - 1) : released[i] - released[j] < timeWindowMs}

\* C6: every call waitForRateLimit records is recorded when fewer than 10 recorded
\* calls lie in the trailing 60 s and at least 6 s after the most recent recorded
\* call, and the time it records is the time at which it returns.
C6_SequentialSpacing ==
    /\ \A i \in 1..Len(released) : Cardinality(RecordedInWindowBefore(i)) < maxCalls
    /\ \A i \in 2..Len(released) : released[i] - released[i - 1] >= minDelayMs
    /\ \A c \in Callers :
           rl[c].pc = "done" =>
               /\ Len(callTimestamps) > 0
               /\ callTimestamps[Len(callTimestamps)] = released[Len(released)]

\* eleven calls in immediate succession: ten 6 s apart, the eleventh 61 s after the first
C6_Witness ==
    /\ Len(released) = 11
    /\ gaps = 0
    /\ released[10] - released[1] = 9 * minDelayMs
    /\ released[11] - released[1] = timeWindowMs + bufferMs

NextRc == RcNext

SpecRc == Init /\ [][NextRc]_vars

\* C17 (as claimed): with callers running concurrently, any two recorded calls are at
\* least 6 s apart and no 60 s window holds more than 10 recorded calls.
C17_Original ==
    /\ \A i, j \in 1..Len(released) :
          i < j => released[j] - released[i] >= minDelayMs
    /\ \A i \in 1..Len(released) :
          Cardinality({j \in 1..Len(released) :
                          released[i] <= released[j] /\ released[j] < released[i] + timeWindowMs})
              <= maxCalls

(***************************************************************************)
(* Properties of GeminiClient.                                             *)
(***************************************************************************)
NextGc == GcNext

SpecGc == Init /\ [][NextGc]_vars

\* a provider error was handed to handleModelFailure in this step
BlockedStep == blockedErrs' = blockedErrs + 1

NoModelLeft ==
    /\ ModelAt(models, currentModelIndex).failureCount + 1 >= modelFailureThreshold
    /\ \A i \in 0..(Len(models) - 1) :
           i # currentModelIndex =>
               IF i = 0
               THEN now' - ModelAt(models, 0).lastFailureTime < cooldownPeriodMs
               ELSE ModelAt(models, i).failureCount >= modelFailureThreshold

SearchReachesPrimary ==
    /\ currentModelIndex # 0
    /\ ModelAt(models, currentModelIndex).failureCount + 1 >= modelFailureThreshold
    /\ \A i \in (currentModelIndex + 1)..(Len(models) - 1) :
           ModelAt(models, i).failureCount >= modelFailureThreshold

PrimaryCooldownOver == now - ModelAt(models, 0).lastFailureTime >= cooldownPeriodMs

\* C20: a model-blocked error makes the primary model the active one only when at
\* least 10 minutes have passed since the primary's last failure; and when the search
\* comes to the primary after those 10 minutes, the primary is made active with
\* failureCount 0 and the request is repeated.
C20_PrimarySkippedInCooldown ==
    [][BlockedStep =>
          /\ (currentModelIndex # 0 /\ currentModelIndex' = 0) => PrimaryCooldownOver
          /\ (SearchReachesPrimary /\ PrimaryCooldownOver) =>
                /\ currentModelIndex' = 0
                /\ ModelAt(models', 0).failureCount = 0
                /\ gc'.pc = "request"
          /\ (SearchReachesPrimary /\ ~PrimaryCooldownOver) => currentModelIndex' # 0]_vars

\* the search has gone round to the primary: no cooldown wait has taken place, every
\* other model is at the threshold, the primary's last failure is 10 minutes or more
\* ago and the primary is active with failureCount 0
C20_Witness ==
    /\ version # 0
    /\ cooldowns = 0
    /\ gc.pc = "request"
    /\ currentModelIndex = 0
    /\ ModelAt(models, 0).failureCount = 0
    /\ blockedErrs >= modelFailureThreshold * Len(models)
    /\ now - ModelAt(models, 0).lastFailureTime >= cooldownPeriodMs
    /\ \A i \in 1..(Len(models) - 1) :
           ModelAt(models, i).failureCount >= modelFailureThreshold

\* C9: within one generateContent call the attempt counter is one more than the number
\* of errors that were neither model-blocked nor rate-limit; the call returns "Failed
\* after 2 attempts" exactly when the second such error occurs, and after the first
\* one it goes on to another attempt.
C9_RetryCounter ==
    /\ gc.pc \in {"request", "cooldown", "rateLimitWait"} => gc.attempt = callOthers + 1
    /\ gc.pc = "backoff" => gc.attempt = callOthers /\ callOthers = 1
    /\ (gc.pc = "returned" /\ ~gcResult.success) =>
           /\ callOthers = maxRetries
           /\ gcResult.error.text = "Failed after attempts with model"
           /\ gcResult.error.attempts = maxRetries
    /\ callOthers = maxRetries => gc.pc = "returned" /\ ~gcResult.success
    /\ callOthers = 1 =>
           \/ gc.pc \in {"backoff", "request", "cooldown", "rateLimitWait"}
           \/ gc.pc = "returned" /\ gcResult.success

C9_Witness ==
    /\ gc.pc = "returned"
    /\ ~gcResult.success
    /\ callOthers = maxRetries
    /\ blockedStreak > 0

\* C10: generateContent ends by returning a response, and every response that is not a
\* success has success = false and an error that carries the last error the provider
\* raised and the name of the model the request went to.
C10_FailureCarriesErrorAndModel ==
    /\ gc.pc \in {"idle", "rateWait", "request", "cooldown", "rateLimitWait", "backoff",
                  "returned"}
    /\ gc.pc = "returned" =>
           \/ gcResult = SuccessResponse
           \/ /\ gcResult.success = FALSE
              /\ lastError \in ProviderErrors
              /\ gcResult.error.cause = lastError
              /\ usedModel = ModelAt(models, currentModelIndex).name
              /\ gcResult.error.model = usedModel

C10_Witness ==
    /\ gc.pc = "returned"
    /\ gcResult.success = FALSE
    /\ gcResult.error.model = "gemini-2.5-flash"
    /\ gcResult.error.cause.status = 503

(***************************************************************************)
(* Properties of validateTastingNotes.                                     *)
(***************************************************************************)
NextTn == TnNext \/ TnSanitize

SpecTn == Init /\ [][NextTn]_vars

\* the string has a character of the set
HasChar(value, set) == value.type = "string" /\ \E i \in 1..Len(value.chars) : value.chars[i] \in set

\* "#" followed by six hexadecimal digits
IsHashAndSixHex(value) ==
    /\ value.type = "string"
    /\ Len(value.chars) = 7
    /\ value.chars[1] = "#"
    /\ \A i \in 2..7 : value.chars[i] \in HexDigits

IsIntegerOneToFive(value) == value.type = "number" /\ value.tenths \in {10, 20, 30, 40, 50}

\* the defects C11 names, in an object given to validateTastingNotes
NamedDefect(input) ==
    /\ input.type = "object"
    /\ \/ \E name \in AttributeSet : name \notin DOMAIN input.fields
       \/ \E name \in AttributeSet \cap DOMAIN input.fields :
             /\ input.fields[name].type = "object"
             /\ {"score", "tag", "color"} \subseteq DOMAIN input.fields[name].fields
             /\ \/ ~IsIntegerOneToFive(input.fields[name].fields.score)
                \/ HasChar(input.fields[name].fields.tag, UpperCase \cup Digits)
                \/ ~IsHashAndSixHex(input.fields[name].fields.color)

\* a complete profile: exactly the five attributes, each with a valid score, tag, color
CompleteProfile(data) ==
    /\ data.type = "object"
    /\ DOMAIN data.fields = AttributeSet
    /\ \A name \in AttributeSet :
          /\ data.fields[name].type = "object"
          /\ DOMAIN data.fields[name].fields = {"score", "tag", "color"}
          /\ IsIntegerOneToFive(data.fields[name].fields.score)
          /\ data.fields[name].fields.tag.type = "string"
          /\ ~HasChar(data.fields[name].fields.tag, UpperCase \cup Digits)
          /\ IsHashAndSixHex(data.fields[name].fields.color)

Rejected(result) ==
    /\ result.success = FALSE
    /\ result.data = Undefined
    /\ Len(result.errors) > 0

\* every error line names the attribute, or the attribute and the key, it is about
PathQualified(result) ==
    \A i \in 1..Len(result.errors) :
        /\ Len(result.errors[i].path) \in {1, 2}
        /\ result.errors[i].path[1] \in AttributeSet

\* C11: validateTastingNotes rejects the whole profile, with no data and with errors
\* qualified by field paths, whenever an attribute is missing, a score is no integer in
\* 1..5, a tag has an uppercase letter or a digit, or a color is not "#" and six hex
\* digits; whatever it accepts is a complete profile.
C11_ValidationFailsClosed ==
    tnInput # Undefined =>
        /\ NamedDefect(tnInput) => Rejected(tnResult) /\ PathQualified(tnResult)
        /\ tnResult.success \/ Rejected(tnResult)
        /\ tnResult.success => CompleteProfile(tnResult.data) /\ tnResult.errors = Undefined

C11_Witness ==
    /\ tnInput # Undefined
    /\ NamedDefect(tnInput)
    /\ Rejected(tnResult)
    /\ Len(tnResult.errors) >= 2
    /\ \E i \in 1..Len(tnResult.errors) : tnResult.errors[i].path = <<"acidity", "color">>

\* a provider request fails with a rate-limit error
RateLimitedStep ==
    /\ gc.pc = "request"
    /\ gc'.pc # "returned"
    /\ isRateLimitError(lastError')

\* C19 (as claimed): after a provider request has failed with a rate-limit error the
\* client sleeps for 60 s, and it clears the limiter's timestamps when the sleep is
\* over, before its next provider request.
C19_Original ==
    [][/\ RateLimitedStep =>
             gc'.pc = "rateLimitWait" /\ gc'.wake = now + rateLimitErrorWaitMs
       /\ (gc.pc = "rateLimitWait" /\ gc'.pc # "rateLimitWait") =>
             now' >= now + rateLimitErrorWaitMs /\ callTimestamps' = <<>>]_vars

(***************************************************************************)
(* Properties of batchCleanFields and of the row built from its result.    *)
(***************************************************************************)
NextDc == DcNext

SpecDc == Init /\ [][NextDc]_vars

CallsOf(method) == SelectSeq(dcCalls, LAMBDA call : call.method = method)

\* null, undefined, or a string of nothing but white space
NullOrEmptyInput(value) ==
    \/ value \in {JsonNull, Undefined}
    \/ value.type = "string" /\ \A i \in 1..Len(value.chars) : value.chars[i] \in WhiteSpace

\* the configured fields that are null or empty in the scraped data, in the configured order
NullConfigured(data) ==
    SelectSeq(CLEANING_FIELD_CONFIGS, LAMBDA field : NullOrEmptyInput(Property(data, field)))

\* the value the extraction returned for a field, undefined when there is none
ExtractedValue(field) ==
    LET reply == dcReplies.extractCoffeeData
    IN IF reply = Undefined THEN Undefined
       ELSE IF ~reply.reply.success THEN Undefined
       ELSE IF reply.reply.data.type # "object" THEN Undefined
       ELSE Property(reply.reply.data.fields, field)

\* C13: batchCleanFields makes at most one extraction call per product, for exactly
\* the configured fields that are null or empty in the input; a field of the input
\* that differs in cleanedData is such a field, the extraction returned a non-empty
\* string for it, and its new value is that string, trimmed; every other field of the
\* input, so every non-null one, has its input value.
C13_OneExtractionFillsNullFieldsOnly ==
    dcResult # Undefined =>
        /\ Len(CallsOf("extractCoffeeData")) <= 1
        /\ \A i \in 1..Len(CallsOf("extractCoffeeData")) :
              /\ CallsOf("extractCoffeeData")[i].fields = NullConfigured(dcData)
              /\ CallsOf("extractCoffeeData")[i].fields # <<>>
        /\ dcResult.originalData = dcData
        /\ DOMAIN dcData \subseteq DOMAIN dcResult.cleanedData
        /\ DOMAIN dcResult.cleanedData \subseteq
              DOMAIN dcData \cup ConfiguredFields \cup {"aiDescription", "aiTastingNotes"}
        /\ \A key \in DOMAIN dcResult.cleanedData \ {"aiDescription", "aiTastingNotes"} :
              dcResult.cleanedData[key] # Property(dcData, key) =>
                  /\ key \in ConfiguredFields
                  /\ NullOrEmptyInput(Property(dcData, key))
                  /\ ExtractedValue(key).type = "string"
                  /\ ExtractedValue(key).chars # <<>>
                  /\ dcResult.cleanedData[key].type = "string"
                  /\ dcResult.cleanedData[key].chars # <<>>
                  /\ dcResult.cleanedData[key].chars = trim(ExtractedValue(key).chars)

\* region was null and is filled with the trimmed answer; grade was set, the answer
\* offered another value, and grade is as it was; a number offered for a null field
\* is not written
C13_Witness ==
    /\ dcPc = "returned"
    /\ Property(dcData, "region") = JsonNull
    /\ Property(dcData, "grade") = String(<<"g">>)
    /\ Len(CallsOf("extractCoffeeData")) = 1
    /\ ExtractedValue("region") = String(<<" ", "x", " ">>)
    /\ ExtractedValue("grade") = String(<<"a", "a">>)
    /\ dcResult.cleanedData.region = String(<<"x">>)
    /\ dcResult.cleanedData.grade = String(<<"g">>)
    /\ dcResult.fieldsProcessed # <<>>
    /\ dcResult.fieldsProcessed[1] = "region"

\* the step failed: the client was called and did not return success
StepFailed(method) ==
    /\ dcReplies[method] # Undefined
    /\ \/ ~dcReplies[method].reply.success
       \/ dcReplies[method].reply.data = JsonNull

\* the step was attempted: the client was called, or the step found no text to send
StepAttempted(method, step) ==
    \/ Len(CallsOf(method)) = 1
    \/ \E i \in 1..Len(dcLog) :
          dcLog[i].step = step /\ dcLog[i].message \in {"No description text available",
                                                        "No tasting data available",
                                                        "No NULL fields found"}

\* the failure of a step is on record: in the errors of the result or in the log
FailureRecorded(message) ==
    \/ \E i \in 1..Len(dcResult.errors) : dcResult.errors[i] = message
    \/ \E i \in 1..Len(dcLog) : dcLog[i].step \in {"Error", "Warning"} /\ dcLog[i].message = message

IsCleaningResult(result) ==
    /\ DOMAIN result = {"originalData", "cleanedData", "fieldsProcessed", "errors"}
    /\ result.originalData = dcData
    /\ DOMAIN dcData \subseteq DOMAIN result.cleanedData

\* C14: batchCleanFields always ends by returning a CleaningResult; when one of its
\* three steps has failed, the failure is in the result's errors or in the log, and
\* the other two steps have been attempted all the same.
C14_StepsIndependent ==
    /\ dcPc \in {"idle", "extract", "describe", "taste", "returned", "inserted"}
    /\ dcPc \in {"returned", "inserted"} =>
          /\ IsCleaningResult(dcResult)
          /\ StepFailed("extractCoffeeData") =>
                /\ FailureRecorded("Batch cleaning failed")
                /\ StepAttempted("generateAiDescription", "AI Description")
                /\ StepAttempted("generateAiTastingNotes", "AI Tasting Notes")
          /\ StepFailed("generateAiDescription") =>
                /\ FailureRecorded("AI description generation failed")
                /\ StepAttempted("extractCoffeeData", "Data Cleaning")
                /\ StepAttempted("generateAiTastingNotes", "AI Tasting Notes")
          /\ StepFailed("generateAiTastingNotes") =>
                /\ FailureRecorded("AI tasting notes generation failed")
                /\ StepAttempted("extractCoffeeData", "Data Cleaning")
                /\ StepAttempted("generateAiDescription", "AI Description")

\* the extraction and the summary failed and the tasting profile was still generated
C14_Witness ==
    /\ dcPc = "returned"
    /\ StepFailed("extractCoffeeData")
    /\ StepFailed("generateAiDescription")
    /\ Len(CallsOf("generateAiTastingNotes")) = 1
    /\ dcReplies.generateAiTastingNotes.reply.success
    /\ "aiTastingNotes" \in DOMAIN dcResult.cleanedData
    /\ Len(dcResult.errors) = 1

(***************************************************************************)
(* Properties of the process that scrapes all sources.                     *)
(***************************************************************************)
NextSa == SaNext

SpecSa == Init /\ [][NextSa]_vars

\* C18 (as claimed): with the sources running concurrently, no 60 s window holds more
\* than 10 provider requests of the process.
C18_Original ==
    \A i \in 1..Len(saRequests) :
        Cardinality({j \in 1..Len(saRequests) :
                        saRequests[i] <= saRequests[j] /\ saRequests[j] < saRequests[i] + timeWindowMs})
            <= maxCalls

(* C21: a successful provider call sets the failureCount of the model that served it to 0
   and leaves every other failureCount, every lastFailureTime and the active-model index
   as they were. *)
SuccessStep == gc.pc = "request" /\ gc'.pc = "returned" /\ gcResult'.success

C21_SuccessResetsServingModelOnly ==
    [][SuccessStep =>
        /\ currentModelIndex' = currentModelIndex
        /\ Len(models') = Len(models)
        /\ ModelAt(models', currentModelIndex).name = usedModel'
        /\ ModelAt(models', currentModelIndex).failureCount = 0
        /\ \A i \in 1..Len(models) :
              /\ models'[i].name = models[i].name
              /\ models'[i].lastFailureTime = models[i].lastFailureTime
              /\ i # currentModelIndex + 1 => models'[i].failureCount = models[i].failureCount]_vars

\* the second model answers after one failure of its own, the primary being at the threshold
C21_Witness ==
    /\ gc.pc = "returned"
    /\ gcResult = SuccessResponse
    /\ currentModelIndex = 1
    /\ blockedErrs = modelFailureThreshold + 1
    /\ cooldowns = 0
    /\ ModelAt(models, 0).failureCount = modelFailureThreshold
    /\ ModelAt(models, 1).failureCount = 0
    /\ ModelAt(models, 1).lastFailureTime > 0

(* C22: when a model-blocked error leaves no model to switch to while the primary model
   is inside its cooldown, generateContent makes no further provider request in that
   call: it returns a failure result to its caller, at once or when its wait is over. *)
C22_Original ==
    [][/\ (BlockedStep /\ NoModelLeft) =>
              /\ gc'.pc \in {"returned", "cooldown"}
              /\ gc'.pc = "returned" => ~gcResult'.success
       /\ (gc.pc = "cooldown" /\ gc'.pc # "cooldown") =>
              /\ gc'.pc = "returned"
              /\ ~gcResult'.success]_vars

\* a validated profile with the hex digits of its colors in lower case
LowerColors(data) ==
    Object([name \in DOMAIN data.fields |->
               Object([data.fields[name].fields EXCEPT
                          !.color = String(toLowerCase(@.chars))])])

(* C23 as stated: for every profile that validateTastingNotes accepts, the sanitized
   profile is accepted too and validation returns a structure equal to the accepted
   one, colors with uppercase hex digits included; and sanitizing twice gives what
   sanitizing once gives. *)
C23_Original ==
    (tnRound # Undefined /\ tnResult.success) =>
        /\ tnRound.result.success
        /\ tnRound.result.data = tnResult.data
        /\ tnRound.twice = tnRound.sanitized

(* C23 amended: for every profile that validateTastingNotes accepts, the sanitized
   profile is accepted too and validation returns the accepted structure with the hex
   digits of its colors in lower case (the same structure when they already were); and
   for every object, sanitizing twice gives what sanitizing once gives. *)
C23_RoundTripLowersColors ==
    tnRound # Undefined =>
        /\ tnRound.twice = tnRound.sanitized
        /\ tnResult.success =>
              /\ tnRound.result.success
              /\ tnRound.result.data = LowerColors(tnResult.data)

\* an accepted profile with an uppercase hex digit has gone through the round trip
C23_Witness ==
    /\ tnRound # Undefined
    /\ tnResult.success
    /\ tnRound.result.success
    /\ tnRound.result.data # tnResult.data
    /\ tnRound.twice = tnRound.sanitized

(* C24: a profile is accepted only if every tag has between one and three words; a tag
   of four lowercase words joined by spaces causes the profile to be rejected. *)
C24_Original ==
    (tnInput # Undefined /\ tnResult.success) =>
        \A name \in DOMAIN tnResult.data.fields :
            LET tag == tnResult.data.fields[name].fields.tag.chars
            IN SplitLength(tag, Len(tag)) \in 1..3

\* a free-text source with nothing in it: null, undefined, or white space only
EmptyText(value) ==
    \/ value.type \in {"null", "undefined"}
    \/ value.type = "string" /\ \A i \in 1..Len(value.chars) : value.chars[i] \in WhiteSpace

NoFreeText(data) ==
    \A key \in {"descriptionLong", "descriptionShort", "farmNotes", "cuppingNotes"} :
        EmptyText(Property(data, key))

(* C25: when long description, short description, farm notes and cupping notes of the
   product are all empty, batchCleanFields returns without any call of the client, and
   its result has cleanedData equal to the input, no field processed and no error. *)
C25_NoFreeTextNoCall ==
    (dcPc # "idle" /\ NoFreeText(dcData)) =>
        /\ dcPc \in {"returned", "inserted"}
        /\ dcCalls = <<>>
        /\ dcReplies = NoReplies
        /\ dcResult.cleanedData = dcData
        /\ dcResult.originalData = dcData
        /\ dcResult.fieldsProcessed = <<>>
        /\ dcResult.errors = <<>>

\* batchCleanFields has returned for a product whose long description is white space
\* and whose other free-text sources are null, with configured fields to fill
C25_Witness ==
    /\ dcPc = "returned"
    /\ NoFreeText(dcData)
    /\ dcData.descriptionLong = Blank
    /\ Len(nullFields(dcData)) > 0
    /\ dcCalls = <<>>
    /\ dcResult.cleanedData = dcData

\* the summary call of the client has returned to batchCleanFields
SummaryReturned == dcReplies.generateAiDescription # Undefined

(* C26: the summary call succeeds exactly when the provider answered with a text of 20
   to 100 words, and then the summary is that text as it came and is stored as
   aiDescription; for a text outside the band the call returns a failure and
   aiDescription stays unset. *)
C26_SummaryWordBand ==
    SummaryReturned =>
        LET response == dcReplies.generateAiDescription.response
            reply == dcReplies.generateAiDescription.reply
        IN /\ reply.success <=>
                  (response.success /\ response.data.words >= 20 /\ response.data.words <= 100)
           /\ reply.success =>
                  /\ reply.data = response.data
                  /\ Property(dcResult.cleanedData, "aiDescription") = response.data
                  /\ \E i \in 1..Len(dcResult.fieldsProcessed) :
                         dcResult.fieldsProcessed[i] = "aiDescription"
           /\ ~reply.success =>
                  /\ Property(dcResult.cleanedData, "aiDescription") = Undefined
                  /\ \A i \in 1..Len(dcResult.fieldsProcessed) :
                         dcResult.fieldsProcessed[i] # "aiDescription"

\* the provider answered with 101 words and the product is stored without a summary
C26_Witness ==
    /\ SummaryReturned
    /\ dcReplies.generateAiDescription.response.success
    /\ dcReplies.generateAiDescription.response.data.words > 100
    /\ ~dcReplies.generateAiDescription.reply.success
    /\ dcPc = "inserted"
    /\ dcRow.ai_description = Undefined

\* at least one source of the tasting profile has text: long description, short
\* description or cupping notes
HasTastingText(data) ==
    \E key \in {"descriptionLong", "descriptionShort", "cuppingNotes"} :
        ~EmptyText(Property(data, key))

TastingAttempted ==
    \E i \in 1..Len(dcCalls) : dcCalls[i].method = "generateAiTastingNotes"

(* C27: for every new item with text in its long description, short description or
   cupping notes, batchCleanFields has called the tasting-profile generation by the
   time it returns; also when the cupping notes are the only text of the item. *)
C27_Original ==
    (dcPc \in {"returned", "inserted"} /\ HasTastingText(dcData)) => TastingAttempted

\* the calls of the client that batchCleanFields has made and that have not returned
InFlight ==
    Len(dcCalls) - Cardinality({method \in DOMAIN dcReplies : dcReplies[method] # Undefined})

(* C28: the loop over the new urls of one run is sequential: at most one call of the
   generative client is in flight at any time, one is in flight exactly while
   batchCleanFields is suspended at an await, the insert is attempted only after
   batchCleanFields has returned, and the loop takes up the next url only when the
   insert of the current one has been attempted and no call is in flight. *)
C28_OneItemOneCallAtATime ==
    [][/\ InFlight' \in {0, 1}
       /\ InFlight' = 1 <=> dcPc' \in {"extract", "describe", "taste"}
       /\ (dcPc # "inserted" /\ dcPc' = "inserted") => (dcPc = "returned" /\ InFlight = 0)
       /\ (dcPc # "idle" /\ dcPc' = "idle") =>
              (dcPc = "inserted" /\ dcRow # Undefined /\ InFlight = 0)
       /\ (dcData' # dcData /\ dcData' # Undefined) => (dcPc = "idle" /\ InFlight = 0)]_vars

\* the third call of the client for one item is in flight, the first two have returned
C28_Witness ==
    /\ dcPc = "taste"
    /\ Len(dcCalls) = 3
    /\ dcReplies.extractCoffeeData # Undefined
    /\ dcReplies.generateAiDescription # Undefined
    /\ dcReplies.generateAiTastingNotes = Undefined

\* the run has marked at least one item unstocked
MarkedUnstocked ==
    /\ noLongerStockedUrls # <<>>
    /\ udPc \notin {"idle", "collected", "unstock", "thrown"}

(* C30: a run of updateDatabase that has marked at least one item unstocked and
   completes has called the cleanup of the chunks of unstocked items, and when it
   completes no item with stocked = false owns chunks. *)
C30_Original ==
    (udPc = "returned" /\ MarkedUnstocked) =>
        /\ runs \in cleanups
        /\ \A i \in 1..Len(catalog) :
               ~catalog[i].stocked => ChunkOwner(catalog[i]) \notin chunks

NextMa == MaNext

SpecMa == Init /\ [][NextMa]_vars

\* the log has an 'Error' entry of the chain of source s
ErrorRecorded(log, s) ==
    \E i \in 1..Len(log) :
        log[i].step = "Error" /\ log[i].source = s /\ log[i].message = "Error"

(* C29: in 'all' mode a throw of one source's updateDatabase changes no other run; its
   chain records an error for that source and settles, leaving the other runs as they
   are; and the consolidated logs are printed, with exit code 0, only when the chain of
   every source has settled, with an error entry for every source that threw. *)
C29_ThrowLeavesSiblingsAlone ==
    [][/\ \A s \in Sources :
              (maRuns[s].pc = "running" /\ maRuns'[s].pc = "thrown") =>
                  /\ maPc' = maPc
                  /\ \A t \in Sources \ {s} : maRuns'[t] = maRuns[t]
       /\ \A s \in Sources :
              (maRuns[s].pc = "thrown" /\ maRuns'[s].pc # "thrown") =>
                  /\ maRuns'[s].pc = "settled"
                  /\ ErrorRecorded(maLog', s)
                  /\ maPc' = maPc
                  /\ \A t \in Sources \ {s} : maRuns'[t] = maRuns[t]
       /\ (maPc = "running" /\ maPc' # "running") =>
              /\ maPc' = "exit 0"
              /\ maLog' = maLog
              /\ \A s \in Sources :
                    /\ maRuns[s].pc = "settled"
                    /\ maRuns[s].value = CaughtResult(s) => ErrorRecorded(maLog, s)]_vars

\* the logs are printed after one source threw before its first await was over and
\* another one, which went on through all its awaits after that, completed
C29_Witness ==
    /\ maPc = "exit 0"
    /\ \E s \in Sources, t \in Sources :
          /\ maRuns[s].value = CaughtResult(s)
          /\ maRuns[s].awaits = 0
          /\ maRuns[t].value = SuccessResult
          /\ maRuns[t].awaits = MaxAwaits
          /\ \E i \in 1..Len(maLog), j \in 1..Len(maLog) :
                /\ i < j
                /\ maLog[i].step = "Error" /\ maLog[i].source = s
                /\ maLog[j].step = "Result" /\ maLog[j].source = t

(***************************************************************************)
(* C31.  Every request generateContent sends to the provider, retries and  *)
(* re-attempts after a model switch included, is preceded by its own       *)
(* waitForRateLimit call, so that two consecutive requests of one client   *)
(* are at least minDelayMs apart.                                          *)
(***************************************************************************)
\* a step that sends a request to the provider
RequestStep ==
    /\ gc'.pc = "request"
    /\ gc.pc # "request" \/ models' # models

\* waitForRateLimit has just returned to generateContent
AcquiredStep == gc.pc = "rateWait" /\ rl[Client].pc = "done"

C31_Original == [][RequestStep => AcquiredStep]_vars

(***************************************************************************)
(* C32.  Every provider error of the model-blocked class (the errors       *)
(* isModelBlocked accepts: status 429 or 403, quota, rate-limit and        *)
(* blocked messages) raises the failureCount of the active model by one    *)
(* and sets its lastFailureTime to the current time.                       *)
(***************************************************************************)
\* the catch block of generateContent has run on a provider error
ErrorCaughtStep ==
    /\ gc.pc = "request"
    /\ gaps' # gaps \/ blockedErrs' # blockedErrs \/ callOthers' # callOthers

\* the model that was active when the request failed has one more failure, timed now
FailureCounted ==
    /\ ModelAt(models', currentModelIndex).failureCount =
           ModelAt(models, currentModelIndex).failureCount + 1
    /\ ModelAt(models', currentModelIndex).lastFailureTime = now

C32_Original ==
    [][(ErrorCaughtStep /\ isModelBlocked(version, lastError')) => FailureCounted]_vars

(***************************************************************************)
(* C33.  A new url gets a row if and only if its detail fetch returned     *)
(* data.  A url whose fetch returned nothing is skipped without an insert. *)
(* Once data was fetched, batchCleanFields returns whatever the provider   *)
(* answered and the insert is the step that follows; a step that failed    *)
(* (provider failure, rejected profile, summary out of its word band)      *)
(* leaves its columns as they were scraped, the two generated columns      *)
(* unset.                                                                  *)
(***************************************************************************)
\* the columns of the row that the extraction step can fill
ScrapedColumns == DOMAIN dcRow \ {"ai_description", "ai_tasting_notes"}

C33_EnrichmentFailureKeepsInsert ==
    /\ dcData = JsonNull => dcPc = "idle" /\ dcRow = Undefined
    /\ dcRow # Undefined => dcData \in ScrapedItems
    /\ dcPc # "idle" => dcData \in ScrapedItems
    /\ dcPc = "returned" => ENABLED DcInsert
    /\ dcPc = "inserted" =>
          /\ dcRow # Undefined
          /\ StepFailed("extractCoffeeData") =>
                \A column \in ScrapedColumns : dcRow[column] = InsertPayload(dcData)[column]
          /\ StepFailed("generateAiDescription") => dcRow.ai_description = Undefined
          /\ StepFailed("generateAiTastingNotes") => dcRow.ai_tasting_notes = Undefined

\* all three steps failed, each in its own way, and the row was handed to the store
C33_Witness ==
    /\ dcPc = "inserted"
    /\ StepFailed("extractCoffeeData")
    /\ ~dcReplies.extractCoffeeData.response.success
    /\ StepFailed("generateAiDescription")
    /\ dcReplies.generateAiDescription.response.success
    /\ StepFailed("generateAiTastingNotes")
    /\ dcReplies.generateAiTastingNotes.response.success
    /\ \E column \in ScrapedColumns : dcRow[column] = JsonNull

(***************************************************************************)
(* Properties of updateDatabase on the millisecond clock.                  *)
(***************************************************************************)
NextEm == EmNext

SpecEm == Init /\ [][NextEm]_vars

\* C34 (as claimed): when a run returns success, every row it inserted has been handed
\* to processBulkEmbeddings in that run (it owns chunks), however many rows the run
\* inserted and however long their fetch and enrichment took.
C34_Original ==
    RunSucceeded => \A i \in InsertedRows : ChunkOwner(catalog[i]) \in chunks

(***************************************************************************)
(* C36.  Whenever generateContent has a request with the provider,         *)
(* currentModelIndex is an index of the model list and the active model's  *)
(* failureCount is below modelFailureThreshold.                            *)
(***************************************************************************)
\* C36 (as claimed): a request is only ever with the provider on a model of the list
\* whose failureCount is below the threshold.
C36_Original ==
    gc.pc = "request" =>
        /\ currentModelIndex \in 0..(Len(models) - 1)
        /\ ModelAt(models, currentModelIndex).failureCount < modelFailureThreshold

(***************************************************************************)
(* C37.  A model other than the primary whose failureCount has reached     *)
(* modelFailureThreshold keeps that count and serves no request for the    *)
(* rest of the client's life.                                              *)
(***************************************************************************)
\* model i of the list is at the threshold
Exhausted(ms, i) == ModelAt(ms, i).failureCount >= modelFailureThreshold

\* C37 (as claimed): in every step of a client, a non-primary model that is at the
\* threshold stays at the threshold (only the primary's count is reset), is not
\* switched to, and is not the model the next request goes to.
C37_Original ==
    [][\A i \in 1..(Len(models) - 1) :
           (version' = version /\ Exhausted(models, i)) =>
               /\ Exhausted(models', i)
               /\ currentModelIndex' = i =>
                      /\ currentModelIndex = i
                      /\ gc'.pc # "request"]_vars

(***************************************************************************)
(* C35.  Every generateContent call returns after finitely many requests,  *)
(* whatever the provider answers.  The event loop runs every continuation  *)
(* and every timer that is due, and the provider answers every request:    *)
(* a step that is possible is taken.                                       *)
(***************************************************************************)
NextGl == GlNext

SpecGl == Init /\ [][NextGl]_vars

\* every step of generateContent changes its position, the models or the active model
glVars == <<gc, models, currentModelIndex>>

SpecGlFair == SpecGl /\ WF_glVars(NextGl)

\* C35 (as claimed): a generateContent call that has a request with the provider
\* eventually returns to its caller.
C35_Original == (gc.pc = "request") ~> (gc.pc = "returned")

(***************************************************************************)
(* C38.  After a run that returns success, a catalog row of the run's      *)
(* source is stocked exactly when its link is in the filtered listing.     *)
(***************************************************************************)
NextSk == SkNext

SpecSk == Init /\ [][NextSk]_vars

\* the rows of the source of the run in progress
SourceRows(cat) == {i \in 1..Len(cat) : cat[i].source = udSource}

\* C38: when a run returns success, every row of its source, whether it was in the
\* catalog before the run or inserted by it, has stocked = true if and only if its
\* link is one of the run's inStockUrls; a row that was unstocked before the run and
\* is listed again is stocked again.
C38_StockedIffListed ==
    RunSucceeded =>
        /\ \A i \in SourceRows(catalog) :
               catalog[i].stocked <=> catalog[i].link \in Range(inStockUrls)
        /\ \A i \in SourceRows(pre) :
               (~pre[i].stocked /\ pre[i].link \in Range(inStockUrls)) => catalog[i].stocked

C38_Witness ==
    /\ RunSucceeded
    /\ \E i \in SourceRows(pre) :
           ~pre[i].stocked /\ catalog[i].stocked /\ catalog[i].link \in Range(inStockUrls)
    /\ \E i \in SourceRows(pre) :
           pre[i].stocked /\ ~catalog[i].stocked /\ catalog[i].link \notin Range(inStockUrls)

(***************************************************************************)
(* C39.  A run that ends by throwing leaves the rows of its source as they *)
(* were when it started.                                                   *)
(***************************************************************************)
\* the rows of source s, in the order of the table
RowsOfSource(cat, s) ==
    LET IsOfSource(row) == row.source = s
    IN SeqFilter(cat, IsOfSource)

\* C39 (as claimed): when updateDatabase has thrown, the catalog rows of its source are
\* the rows from before the run: no stock flag, price or insert of the failed run is
\* in the store.
C39_Original ==
    udPc = "thrown" => RowsOfSource(catalog, udSource) = RowsOfSource(pre, udSource)

====
